---- MODULE Spec2Model ----
(***************************************************************************)
(* A model of the HRTF data subsystem of openal-soft (hrtf.cpp):           *)
(* the three format loaders, the store builder, the conditioner of         *)
(* GetLoadedHrtf, the enumerator and the reference-counted cache of        *)
(* loaded stores with its two mutexes.                                     *)
(*                                                                         *)
(* Arrays keep the source's 0-based indices: an array of n elements is a   *)
(* function on 0..n-1.  A coefficient is held as an integer in units of    *)
(* 2^-23 (the exact value of the float the loader computes).  A field      *)
(* distance is held in millimetres (the store divides by 1000.0f).         *)
(***************************************************************************)
EXTENDS Integers, Sequences, FiniteSets, Bags, TLC

VARIABLES
    \* one GetLoadedHrtf load, from the file to the store (SpecLoad)
    ldFile,      \* the file behind the enumerated name, NULL if it cannot be opened
    ldDevrate,   \* the devrate argument
    ldHrtfSize,  \* ConfigValueUInt(devname, nullptr, "hrtf-size")
    ldHrtf,      \* the store the call built, NULL if it failed
    ldPc,        \* "call" before the call, "loaded" or "failed" after it
    \* one GetHrtfCoeffs or BuildBFormatHrtf call on a loaded store (SpecQuery)
    qHrtf,       \* the store
    qArgs,       \* [elevation, azimuth, distance, spread]
    qOut,        \* what the call wrote and the values it went through
    qPc,         \* "call" before the call, "done" after GetHrtfCoeffs,
                 \* "built" after BuildBFormatHrtf
    qPoints,     \* AmbiPoints of BuildBFormatHrtf
    qState,      \* the DirectHrtfState it filled and the values it went through
    \* EnumerateHrtf called under changing configurations (SpecEnum)
    enPathOpt,   \* ConfigValueStr(devname, nullptr, "hrtf-paths") of the last call
    enDefOpt,    \* ConfigValueStr(devname, nullptr, "default-hrtf") of the last call
    enList,      \* the list the last call returned
    enFirst,     \* configuration and list of the first call
    enCalls,     \* number of calls made
    \* the enumeration and the cache of loaded stores, with their callers (Spec)
    EnumeratedHrtfLock,  \* the thread that holds the mutex, Unlocked if none
    LoadedHrtfLock,      \* the thread that holds the mutex, Unlocked if none
    EnumeratedHrtfs,     \* sequence of [mDispName, mFilename]
    LoadedHrtfs,         \* sequence of [mFilename, mEntry], mEntry a store pointer
    heap,        \* the HrtfStore objects ever allocated; a pointer is an index
    freed,       \* the pointers whose store has been destroyed
    origin,      \* the file name each store was loaded from
    pc,          \* each thread's position, "idle" between calls
    local,       \* each thread's local variables of the call in progress
    held,        \* each thread's bag of references it has not released
    ret,         \* what each thread's last call returned
    calls,       \* number of calls started
    hist         \* the last successful GetLoadedHrtf calls with no other call since

ldVars == <<ldFile, ldDevrate, ldHrtfSize, ldHrtf, ldPc>>

cacheVars == <<EnumeratedHrtfLock, LoadedHrtfLock, EnumeratedHrtfs, LoadedHrtfs, heap,
               freed, origin, pc, local, held, ret, calls, hist>>

enVars == <<enPathOpt, enDefOpt, enList, enFirst, enCalls>>

\* What the calls on the cache leave alone.
qVars == <<qHrtf, qArgs, qOut, qPc, qPoints, qState>>

otherVars == <<ldVars, enVars, qVars>>

vars == <<ldVars, enVars, qVars, cacheVars>>

\* A null pointer (no store, no file).  An absent al::optional is the empty
\* tuple and a present one the tuple of its value.
NULL == [null |-> TRUE]

(***************************************************************************)
(* Data set limits and fixed-point constants.                              *)
(***************************************************************************)
MIN_IR_SIZE == 8
MAX_IR_SIZE == 512
MOD_IR_SIZE == 2
MIN_FD_COUNT == 1
MAX_FD_COUNT == 16
MIN_FD_DISTANCE == 50
MAX_FD_DISTANCE == 2500
MIN_EV_COUNT == 5
MAX_EV_COUNT == 181
MIN_AZ_COUNT == 1
MAX_AZ_COUNT == 255
HRIR_DELAY_FRACBITS == 2
SAMPLETYPE_S16 == 0
SAMPLETYPE_S24 == 1
CHANTYPE_LEFTONLY == 0
CHANTYPE_LEFTRIGHT == 1

\* hrtf.h is not among the sources; the two lengths follow the specification:
\* HRIR_LENGTH >= MAX_IR_SIZE, and MAX_HRIR_DELAY*HRIR_DELAY_FRACONE < 256.
HRIR_LENGTH == 512
HRTF_HISTORY_LENGTH == 64

MAX_HRIR_DELAY == HRTF_HISTORY_LENGTH - 1
HRIR_DELAY_FRACONE == 2 ^ HRIR_DELAY_FRACBITS
HRIR_DELAY_FRACHALF == HRIR_DELAY_FRACONE \div 2

(***************************************************************************)
(* Integer helpers of alnumeric.h, as the source uses them.                *)
(***************************************************************************)
(***************************************************************************)
(* Faulty variants of single operations.  Each property below that holds   *)
(* is also checked to fail when the operation is replaced by its variant.  *)
(***************************************************************************)
\* minu64 without the clamp of its first argument.
minu64Unclamped(a, b) == b

\* std::reverse_copy replaced by a plain copy.
PlainCopy(arr, n) == arr

\* A lock_guard that does not release its mutex.
KeepLocked(m, t) == m

\* remove_unused without the test of the reference count.
remove_always(entry) == TRUE

\* remove_unused that keeps every store.
remove_never(entry) == FALSE

\* The cache scan that takes no loaded store for a match.
MatchNever(hrtf, devrate) == FALSE

\* Variant of MirrorSrc: the right channel of an IR is its own left channel.
MirrorSrcSame(evOffset, azCount, evTotal, ridx) == ridx

\* Variant of ApplyHrtfSize: the option is applied whenever it is set.
ApplyHrtfSizeAlways(hrtf, hrtfsizeopt) ==
    IF hrtfsizeopt # <<>> /\ hrtfsizeopt[1] > 0
    THEN [hrtf EXCEPT !.irSize = hrtfsizeopt[1] - (hrtfsizeopt[1] % 2)]
    ELSE hrtf

\* Variant of FdDistanceUnsupported: every field distance passes.
FdDistanceAnything(distance) == FALSE

\* Variant of DefaultEntries: the defaults are never added.
DefaultEntriesNever(paths, resource) == paths.entries

\* Variant of checkName: no display name is ever taken.
checkNameNever(entries, name) == FALSE

\* Variant of clear: EnumeratedHrtfs keeps its entries.
clear_nothing(entries) == entries

\* Variant of RotateToFront: the element at iter and the first one swap.
RotateSwap(list, i) == [list EXCEPT ![1] = list[i], ![i] = list[1]]

\* Variant of blend_coeffs: the product replaces what was accumulated.
blend_overwrite(src, mult, coeff) == [coeff EXCEPT !.sum = src * mult]

\* Variant of FieldWalk: the walk never advances.
FieldWalkStay(Hrtf, distance, field, ebase) == [field |-> field, ebase |-> ebase]

\* calc_res reading the elevations of the last field of the store.
calc_ebase_last(Hrtf) ==
    LET RECURSIVE Before(_)
        Before(f) == IF f = 0 THEN 0 ELSE Before(f - 1) + Hrtf.field[f - 1].evCount
    IN  Before(Hrtf.fdCount - 1)

\* An IR length that is left as it is.
RoundUpNothing(max_length) == max_length

\* A reordering that leaves the groups where they are.
KeepGroups(arr, sizes, n) == arr

\* A rate change that only relabels the store.
ResampleRateOnly(hrtf, devrate) == [hrtf EXCEPT !.sampleRate = devrate]

\* A sweep that stops after the first slot it removes.
sweep_first(cache, hp) ==
    LET zero == { i \in 1..Len(cache) :
                    hp[cache[i].mEntry] # [null |-> TRUE] /\ hp[cache[i].mEntry].mRef = 0 }
    IN  IF zero = {} THEN cache
        ELSE LET i == CHOOSE x \in zero : \A y \in zero : x <= y
             IN  SubSeq(cache, 1, i - 1) \o SubSeq(cache, i + 1, Len(cache))

\* A search that always answers with the first slot.
lower_bound_front(cache, fname) == 1

\* A scan that looks at the slot at handle only.
ScanFirstOnly(cache, hp, fname, devrate, handle) ==
    IF /\ handle <= Len(cache) /\ cache[handle].mFilename = fname
       /\ hp[cache[handle].mEntry] # [null |-> TRUE]
       /\ hp[cache[handle].mEntry].sampleRate = devrate
    THEN [hit |-> cache[handle].mEntry, handle |-> handle]
    ELSE [hit |-> 0, handle |-> handle]

minu(a, b) == IF a < b THEN a ELSE b
maxu(a, b) == IF a > b THEN a ELSE b
minu64(a, b) == IF a < b THEN a ELSE b

\* Casts to ALubyte and ALushort.  The 64-bit products of the conditioner stay
\* below 2^40 for every 8-bit delay, 16-bit size and 32-bit rate, so they
\* are modelled by unbounded integers.
U8(x) == x % 256
U16(x) == x % 65536

\* The array f[0..n-1] with every element evaluated once (an al::vector that
\* has been filled), rather than a rule evaluated at each read.
Array(f, n) == LET seq == [i \in 1..n |-> f[i - 1]] \o <<>>
               IN  [i \in 0..(n - 1) |-> seq[i + 1]]

RECURSIVE SumTo(_, _)
\* f[0] + ... + f[n-1]
SumTo(f, n) == IF n = 0 THEN 0 ELSE SumTo(f, n - 1) + f[n - 1]

(***************************************************************************)
(* Binary readers.  A file is modelled field by field; every field holds   *)
(* the unsigned little-endian value of its bytes, and the readers do the   *)
(* sign extension the source does.                                         *)
(***************************************************************************)
GetLE_ALshort(raw) == IF raw >= 32768 THEN raw - 65536 ELSE raw
GetLE_ALint24(raw) == IF raw >= 8388608 THEN raw - 16777216 ELSE raw

\* GetLE_ALshort(data) / 32768.0f and GetLE_ALint24(data) / 8388608.0f, both
\* exact in a float, in units of 2^-23.
CoeffS16(raw) == GetLE_ALshort(raw) * 256
CoeffS24(raw) == GetLE_ALint24(raw)

(***************************************************************************)
(* The input file.  One record shape serves the three formats; a format    *)
(* reads only its own fields:                                              *)
(*   magic       the first eight bytes ("short" when fewer can be read)    *)
(*   trunc       the read stage in which the stream ends: "none",          *)
(*               "header", "table" (evOffset / field and azimuth tables)   *)
(*               or "data" (coefficients and delays)                       *)
(*   rate, irCount (V0), irSize, sampleType, channelType, fdCount (V2)     *)
(*   distance, evCount   per field (V0, V1: the one entry 0)               *)
(*   evOffset (V0), azCount (V1, V2)   per elevation, all fields in a row  *)
(*   delays      per IR, <<left, right>> bytes (right: V2 left-right only) *)
(*   seed        generator of the coefficient samples, see FileSample      *)
(***************************************************************************)
FileSample(file, n, c) == (file.seed + 2 * n + c) % 65536

\* The float the loader stores for sample n (IR-major, tap-minor), channel c.
ReadCoeff(file, n, c) ==
    IF file.sampleType = SAMPLETYPE_S24 THEN CoeffS24(FileSample(file, n, c))
    ELSE CoeffS16(FileSample(file, n, c))

(***************************************************************************)
(* CreateHrtfStore.  The store starts with mRef = 1.  Each of its irCount   *)
(* HrirArrays has HRIR_LENGTH taps: the block is al_calloc'ed, the first   *)
(* irSize taps are copied from the loader's array and the rest are filled  *)
(* with float2{}.  An HrirArray is held as the function of its leading     *)
(* taps, here 0..irSize-1; every tap from the end of that function up to   *)
(* HRIR_LENGTH is the zero pair (HrirTap).                                 *)
(***************************************************************************)
HrirTap(hrir, j) == IF j \in DOMAIN hrir THEN hrir[j] ELSE <<0, 0>>

CreateHrtfStore(rate, irSize, fdCount, evCount, distance, azCount, irOffset, irCount, coeffs, delays) ==
    LET evTotal == SumTo(evCount, fdCount)
    IN  [ mRef       |-> 1,
          sampleRate |-> rate,
          irSize     |-> irSize,
          fdCount    |-> fdCount,
          field      |-> [i \in 0..(fdCount - 1) |->
                            [distance |-> distance[i], evCount |-> evCount[i]]],
          elev       |-> [i \in 0..(evTotal - 1) |->
                            [azCount |-> azCount[i], irOffset |-> irOffset[i]]],
          coeffs     |-> [i \in 0..(irCount - 1) |->
                            [j \in 0..(minu(irSize, HRIR_LENGTH) - 1) |->
                               coeffs[i * irSize + j]]],
          delays     |-> [i \in 0..(irCount - 1) |-> delays[i]] ]

(***************************************************************************)
(* Mirroring of a left-only data set: the loop writes, for every elevation *)
(* e and azimuth j, channel 1 of IR evOffset[e] + ((azCount[e]-j) %        *)
(* azCount[e]) from channel 0 of IR evOffset[e] + j.  MirrorSrc is the IR  *)
(* whose left channel the loop copies into the right channel of IR ridx,   *)
(* or -1 when the loop never writes IR ridx (its right channel then        *)
(* keeps the zero it was allocated with).                                  *)
(***************************************************************************)
MirrorSrc(evOffset, azCount, evTotal, ridx) ==
    LET es == { e \in 0..(evTotal - 1) :
                  evOffset[e] <= ridx /\ ridx < evOffset[e] + azCount[e] }
    IN  IF es = {} THEN -1
        ELSE LET e == CHOOSE x \in es : \A y \in es : y <= x
                 j == CHOOSE x \in 0..(azCount[e] - 1) :
                         (azCount[e] - x) % azCount[e] = ridx - evOffset[e]
             IN  evOffset[e] + j

\* The loader's coeffs and delays arrays after the mirroring loop, given the
\* left channel as read (and, for the delays, as shifted).
MirrorCoeffs(left, irSize, evOffset, azCount, evTotal, irCount) ==
    LET src == Array([i \in 0..(irCount - 1) |-> MirrorSrc(evOffset, azCount, evTotal, i)],
                     irCount)
    IN  Array([n \in 0..(irSize * irCount - 1) |->
                 <<left[n], IF src[n \div irSize] = -1 THEN 0
                            ELSE left[src[n \div irSize] * irSize + (n % irSize)]>>],
              irSize * irCount)

MirrorDelays(left, evOffset, azCount, evTotal, irCount) ==
    Array([i \in 0..(irCount - 1) |->
             LET src == MirrorSrc(evOffset, azCount, evTotal, i)
             IN  <<left[i], IF src = -1 THEN 0 ELSE left[src]>>],
          irCount)

\* delays[i][c] <<= HRIR_DELAY_FRACBITS on an ALubyte.
ShiftDelay(d) == U8(d * HRIR_DELAY_FRACONE)

RECURSIVE PrefixU16(_, _)
\* evOffset[i] = (ALushort)(evOffset[i-1] + azCount[i-1]), evOffset[0] = 0.
PrefixU16(azCount, i) ==
    IF i = 0 THEN 0 ELSE U16(PrefixU16(azCount, i - 1) + azCount[i - 1])

IrSizeUnsupported(irSize) ==
    irSize < MIN_IR_SIZE \/ irSize > MAX_IR_SIZE \/ irSize % MOD_IR_SIZE # 0

EvCountUnsupported(evCount) == evCount < MIN_EV_COUNT \/ evCount > MAX_EV_COUNT

AzCountUnsupported(azCount) == azCount < MIN_AZ_COUNT \/ azCount > MAX_AZ_COUNT

(***************************************************************************)
(* LoadHrtf01: NULL on a short read or a violated bound, else the store.   *)
(***************************************************************************)
LoadHrtf01(file) ==
    LET rate == file.rate
        irSize == file.irSize
        evCount == file.evCount[0]
        azCount == file.azCount
        evOffset == Array([i \in 0..(evCount - 1) |-> PrefixU16(azCount, i)], evCount)
        irCount == U16(evOffset[evCount - 1] + azCount[evCount - 1])
        left == [n \in 0..(irSize * irCount - 1) |-> CoeffS16(FileSample(file, n, 0))]
        dleft == [i \in 0..(irCount - 1) |-> ShiftDelay(file.delays[i][1])]
    IN  IF file.trunc = "header" THEN NULL
        ELSE IF IrSizeUnsupported(irSize) \/ EvCountUnsupported(evCount) THEN NULL
        ELSE IF file.trunc = "table" THEN NULL
        ELSE IF \E i \in 0..(evCount - 1) : AzCountUnsupported(azCount[i]) THEN NULL
        ELSE IF file.trunc = "data" THEN NULL
        ELSE IF \E i \in 0..(irCount - 1) : file.delays[i][1] > MAX_HRIR_DELAY THEN NULL
        ELSE CreateHrtfStore(rate, irSize, 1, file.evCount, [f \in {0} |-> 0],
                 azCount, evOffset, irCount,
                 MirrorCoeffs(left, irSize, evOffset, azCount, evCount, irCount),
                 MirrorDelays(dleft, evOffset, azCount, evCount, irCount))

(***************************************************************************)
(* LoadHrtf00: the elevation offsets come from the file and the azimuth    *)
(* counts are their differences.                                           *)
(***************************************************************************)
LoadHrtf00(file) ==
    LET rate == file.rate
        irCount == file.irCount
        irSize == file.irSize
        evCount == file.evCount[0]
        evOffset == file.evOffset
        azCount == Array([i \in 0..(evCount - 1) |->
                            IF i < evCount - 1 THEN U16(evOffset[i + 1] - evOffset[i])
                            ELSE U16(irCount - evOffset[evCount - 1])], evCount)
        left == [n \in 0..(irSize * irCount - 1) |-> CoeffS16(FileSample(file, n, 0))]
        dleft == [i \in 0..(irCount - 1) |-> ShiftDelay(file.delays[i][1])]
    IN  IF file.trunc = "header" THEN NULL
        ELSE IF IrSizeUnsupported(irSize) \/ EvCountUnsupported(evCount) THEN NULL
        ELSE IF file.trunc = "table" THEN NULL
        ELSE IF \/ \E i \in 1..(evCount - 1) : evOffset[i] <= evOffset[i - 1]
                \/ irCount <= evOffset[evCount - 1]
             THEN NULL
        ELSE IF \E i \in 0..(evCount - 1) : AzCountUnsupported(azCount[i]) THEN NULL
        ELSE IF file.trunc = "data" THEN NULL
        ELSE IF \E i \in 0..(irCount - 1) : file.delays[i][1] > MAX_HRIR_DELAY THEN NULL
        ELSE CreateHrtfStore(rate, irSize, 1, file.evCount, [f \in {0} |-> 0],
                 azCount, evOffset, irCount,
                 MirrorCoeffs(left, irSize, evOffset, azCount, evCount, irCount),
                 MirrorDelays(dleft, evOffset, azCount, evCount, irCount))

(***************************************************************************)
(* The field reordering of LoadHrtf02.  std::reverse_copy reverses the     *)
(* per-field arrays; the copy_backward loops move each field's group of    *)
(* elements, taken in file order, to the end of what is left of the new    *)
(* array, so the groups end up in reverse order, each in its own order.    *)
(***************************************************************************)
ReverseCopy(arr, n) == [i \in 0..(n - 1) |-> arr[n - 1 - i]]

\* arr holds n groups in a row, group g of sizes[g] elements.
ReverseGroups(arr, sizes, n) ==
    LET rsizes == Array([g \in 0..(n - 1) |-> sizes[n - 1 - g]], n)
        start == Array([g \in 0..(n - 1) |-> SumTo(sizes, g)], n)
        rstart == Array([g \in 0..(n - 1) |-> SumTo(rsizes, g)], n)
        total == SumTo(sizes, n)
    IN  Array([k \in 0..(total - 1) |->
                 LET g == CHOOSE x \in 0..(n - 1) :
                             rstart[x] <= k /\ k < rstart[x] + rsizes[x]
                 IN  arr[start[n - 1 - g] + (k - rstart[g])]],
              total)

FdCountUnsupported(fdCount) == fdCount < 1 \/ fdCount > MAX_FD_COUNT

FdDistanceUnsupported(distance) ==
    distance < MIN_FD_DISTANCE \/ distance > MAX_FD_DISTANCE

(***************************************************************************)
(* LoadHrtf02.                                                             *)
(***************************************************************************)
LoadHrtf02(file) ==
    LET rate == file.rate
        sampleType == file.sampleType
        channelType == file.channelType
        irSize == file.irSize
        fdCount == file.fdCount
        distance == file.distance
        evCount == file.evCount
        azCount == file.azCount
        evTotal == SumTo(evCount, fdCount)
        evOffset == Array([i \in 0..(evTotal - 1) |-> PrefixU16(azCount, i)], evTotal)
        irTotal == U16(evOffset[evTotal - 1] + azCount[evTotal - 1])
        \* the arrays as read, then as mirrored for left-only data
        left == [n \in 0..(irSize * irTotal - 1) |-> ReadCoeff(file, n, 0)]
        dleft == [i \in 0..(irTotal - 1) |-> ShiftDelay(file.delays[i][1])]
        coeffs == IF channelType = CHANTYPE_LEFTONLY
                  THEN MirrorCoeffs(left, irSize, evOffset, azCount, evTotal, irTotal)
                  ELSE [n \in 0..(irSize * irTotal - 1) |->
                          <<ReadCoeff(file, n, 0), ReadCoeff(file, n, 1)>>]
        delays == IF channelType = CHANTYPE_LEFTONLY
                  THEN MirrorDelays(dleft, evOffset, azCount, evTotal, irTotal)
                  ELSE [i \in 0..(irTotal - 1) |->
                          <<ShiftDelay(file.delays[i][1]), ShiftDelay(file.delays[i][2])>>]
        \* the reordered arrays (fdCount > 1)
        fieldAzs == Array([f \in 0..(fdCount - 1) |->
                             SumTo(azCount, SumTo(evCount, f + 1))
                               - SumTo(azCount, SumTo(evCount, f))], fdCount)
        distance_ == ReverseCopy(distance, fdCount)
        evCount_ == ReverseCopy(evCount, fdCount)
        azCount_ == ReverseGroups(azCount, evCount, fdCount)
        evOffset_ == Array([i \in 0..(evTotal - 1) |-> PrefixU16(azCount_, i)], evTotal)
        coeffs_ == ReverseGroups(coeffs, [f \in 0..(fdCount - 1) |-> fieldAzs[f] * irSize],
                                 fdCount)
        delays_ == ReverseGroups(delays, fieldAzs, fdCount)
    IN  IF file.trunc = "header" THEN NULL
        ELSE IF \/ sampleType > SAMPLETYPE_S24 \/ channelType > CHANTYPE_LEFTRIGHT
                \/ IrSizeUnsupported(irSize) \/ FdCountUnsupported(fdCount)
             THEN NULL
        ELSE IF file.trunc = "table" THEN NULL
        ELSE IF \E f \in 0..(fdCount - 1) :
                   \/ FdDistanceUnsupported(distance[f])
                   \/ (f > 0 /\ distance[f] <= distance[f - 1])
                   \/ EvCountUnsupported(evCount[f])
             THEN NULL
        ELSE IF \E e \in 0..(evTotal - 1) : AzCountUnsupported(azCount[e]) THEN NULL
        ELSE IF file.trunc = "data" THEN NULL
        ELSE IF \E i \in 0..(irTotal - 1) :
                   \/ file.delays[i][1] > MAX_HRIR_DELAY
                   \/ (channelType = CHANTYPE_LEFTRIGHT /\ file.delays[i][2] > MAX_HRIR_DELAY)
             THEN NULL
        ELSE IF fdCount > 1
             THEN CreateHrtfStore(rate, irSize, fdCount, evCount_, distance_, azCount_,
                      evOffset_, irTotal, coeffs_, delays_)
             ELSE CreateHrtfStore(rate, irSize, fdCount, evCount, distance, azCount,
                      evOffset, irTotal, coeffs, delays)

(***************************************************************************)
(* GetLoadedHrtf, from the opened stream to the store it publishes.        *)
(***************************************************************************)
\* Lines 1323-1345: read the magic and dispatch on it.  file = NULL is a file
\* that cannot be opened or an absent resource.
LoadStream(file) ==
    IF file = NULL THEN NULL
    ELSE IF file.magic = "short" THEN NULL
    ELSE IF file.magic = "MinPHR02" THEN LoadHrtf02(file)
    ELSE IF file.magic = "MinPHR01" THEN LoadHrtf01(file)
    ELSE IF file.magic = "MinPHR00" THEN LoadHrtf00(file)
    ELSE NULL

\* PPhaseResampler::process on both channels of one IR, HRIR_LENGTH samples
\* in and out.  The resampler is not among the sources; it is modelled as the
\* ideal rate change of the input with no filter ringing: output sample k is
\* the input sample of the same time, floor(k * srate / devrate).  The output
\* is zero from tap ceil(n * devrate / srate) on, n the input's leading taps.
ResamplerProcess(srate, devrate, in) ==
    LET n == Cardinality(DOMAIN in)
        len == minu(HRIR_LENGTH, (n * devrate + srate - 1) \div srate)
    IN  [k \in 0..(len - 1) |-> in[(k * srate) \div devrate]]

\* Lines 1353-1395, taken when hrtf.sampleRate # devrate.
Resample(hrtf, devrate) ==
    LET srate == hrtf.sampleRate
        lastEv == SumTo([f \in 0..(hrtf.fdCount - 1) |-> hrtf.field[f].evCount],
                        hrtf.fdCount) - 1
        irCount == hrtf.elev[lastEv].irOffset + hrtf.elev[lastEv].azCount
        newIrSize == minu64(HRIR_LENGTH, (hrtf.irSize * devrate + srate - 1) \div srate)
                       + (MOD_IR_SIZE - 1)
    IN  [hrtf EXCEPT
           !.coeffs = [i \in DOMAIN hrtf.coeffs |->
                         IF i < irCount
                         THEN ResamplerProcess(srate, devrate, hrtf.coeffs[i])
                         ELSE hrtf.coeffs[i]],
           !.delays = [i \in DOMAIN hrtf.delays |->
                         IF i < irCount
                         THEN [c \in 1..2 |->
                                 U8(minu64(MAX_HRIR_DELAY * HRIR_DELAY_FRACONE,
                                     (hrtf.delays[i][c] * devrate + srate \div 2) \div srate))]
                         ELSE hrtf.delays[i]],
           !.irSize = newIrSize - (newIrSize % MOD_IR_SIZE),
           !.sampleRate = devrate]

\* Lines 1397-1404: the hrtf-size option, an optional unsigned.
ApplyHrtfSize(hrtf, hrtfsizeopt) ==
    IF hrtfsizeopt # <<>> /\ hrtfsizeopt[1] > 0 /\ hrtfsizeopt[1] < hrtf.irSize
    THEN LET size == maxu(hrtfsizeopt[1], MIN_IR_SIZE)
         IN  [hrtf EXCEPT !.irSize = size - (size % MOD_IR_SIZE)]
    ELSE hrtf

\* Lines 1323-1407: NULL, or the store that is inserted into the cache.
LoadAndCondition(file, devrate, hrtfsizeopt) ==
    LET hrtf == LoadStream(file)
    IN  IF hrtf = NULL THEN NULL
        ELSE ApplyHrtfSize(IF hrtf.sampleRate # devrate THEN Resample(hrtf, devrate)
                           ELSE hrtf, hrtfsizeopt)

(***************************************************************************)
(* Strings.  A std::string is a sequence of one-character strings; string  *)
(* positions are 0-based as in the code and npos is -1.                    *)
(***************************************************************************)
npos == -1

\* The characters the model uses, in the order of their character codes.
Chars == << " ", "!", "#", ",", "-", ".", "/", "0", "1", "2", "3", "4", "5", "6", "7",
            "8", "9", "B", "F", "H", "I", "R", "T", "\\", "_", "a", "b", "d",
            "e", "h", "i", "l", "m", "n", "o", "p", "r", "t", "u", "w", "x", "y", "z" >>

Ord(c) == CHOOSE i \in 1..Len(Chars) : Chars[i] = c

\* std::string operator<.
RECURSIVE StrLess(_, _)
StrLess(a, b) ==
    IF b = <<>> THEN FALSE
    ELSE IF a = <<>> THEN TRUE
    ELSE IF Head(a) # Head(b) THEN Ord(Head(a)) < Ord(Head(b))
    ELSE StrLess(Tail(a), Tail(b))

find_last_of(str, ch) ==
    LET at == { i \in 1..Len(str) : str[i] = ch }
    IN  IF at = {} THEN npos ELSE (CHOOSE i \in at : \A j \in at : j <= i) - 1

\* str.substr(pos, count), count = npos for the rest of the string.
substr(str, pos, count) ==
    IF count = npos THEN SubSeq(str, pos + 1, Len(str))
    ELSE SubSeq(str, pos + 1, minu(pos + count, Len(str)))

Digits == <<"0", "1", "2", "3", "4", "5", "6", "7", "8", "9">>
IsDigit(c) == \E i \in 1..10 : Digits[i] = c
DigitValue(c) == (CHOOSE i \in 1..10 : Digits[i] = c) - 1

\* std::to_string of a non-negative int.
RECURSIVE to_string(_)
to_string(n) ==
    IF n < 10 THEN <<Digits[n + 1]>>
    ELSE to_string(n \div 10) \o <<Digits[(n % 10) + 1]>>

isspace(c) == c = " "

(***************************************************************************)
(* Input files of the loader specification.                                *)
(***************************************************************************)
MaxFdCount == 2

Fn0(seq) == [i \in 0..(Len(seq) - 1) |-> seq[i + 1]]

\* Azimuth counts of the elevations of field f.
FieldAzs(f) == IF f % 2 = 0 THEN <<1, 2, 3, 2, 1>> ELSE <<1, 1, 4, 1, 1>>

RECURSIVE AzLayout(_)
AzLayout(fdCount) ==
    IF fdCount = 0 THEN <<>> ELSE AzLayout(fdCount - 1) \o FieldAzs(fdCount - 1)

RECURSIVE SeqSum(_)
SeqSum(seq) == IF seq = <<>> THEN 0 ELSE Head(seq) + SeqSum(Tail(seq))

\* File delays of n IRs: "low" are small and differ per IR and channel,
\* "high" are at the limit, "over" has one delay past the limit.
DelayTable(n, kind) ==
    [i \in 0..(n - 1) |->
        IF kind = "low" THEN <<i % 8, (3 * i + 1) % 8>>
        ELSE IF kind = "high" THEN <<MAX_HRIR_DELAY - 5 * (i % 2), MAX_HRIR_DELAY>>
        ELSE <<IF i = 1 THEN MAX_HRIR_DELAY + 1 ELSE 0, 0>>]

FileRates == {22050, 44100}
DevRates == {22050, 44100, 48000}
HrtfSizeOpts == {<<>>, <<0>>, <<3>>, <<11>>, <<600>>}

\* A well-formed V1 file; the other files are changes of it.
BaseFile ==
    [ magic |-> "MinPHR01", trunc |-> "none", rate |-> 44100, irCount |-> 9,
      irSize |-> 16, sampleType |-> SAMPLETYPE_S16, channelType |-> CHANTYPE_LEFTONLY,
      fdCount |-> 1, distance |-> Fn0(<<0>>), evCount |-> Fn0(<<5>>),
      evOffset |-> Fn0(<<0, 1, 3, 6, 8>>), azCount |-> Fn0(AzLayout(1)),
      delays |-> DelayTable(9, "low"), seed |-> 32760 ]

V2File(fdCount) ==
    [ BaseFile EXCEPT
        !.magic = "MinPHR02", !.fdCount = fdCount,
        !.distance = [f \in 0..(fdCount - 1) |-> 200 * (f + 1)],
        !.evCount = [f \in 0..(fdCount - 1) |-> 5],
        !.azCount = Fn0(AzLayout(fdCount)),
        !.delays = DelayTable(SeqSum(AzLayout(fdCount)), "low") ]

GoodFiles ==
    { [BaseFile EXCEPT !.magic = m, !.rate = r, !.irSize = s,
                       !.delays = DelayTable(9, d)] :
        m \in {"MinPHR00", "MinPHR01"}, r \in FileRates, s \in {8, 16, 254},
        d \in {"low", "high"} }
    \cup { [BaseFile EXCEPT !.magic = "MinPHR00", !.irSize = MAX_IR_SIZE, !.rate = r] :
              r \in FileRates }
    \cup { [BaseFile EXCEPT !.magic = "MinPHR00", !.evOffset = Fn0(<<1, 2, 4, 7, 8>>)] }
    \cup { [V2File(n) EXCEPT !.rate = r, !.irSize = s, !.sampleType = t,
                            !.channelType = c,
                            !.delays = DelayTable(SeqSum(AzLayout(n)), d)] :
              n \in 1..MaxFdCount, r \in FileRates, s \in {8, 16}, t \in {0, 1},
              c \in {0, 1}, d \in {"low", "high"} }

BadFiles ==
    { NULL, [BaseFile EXCEPT !.magic = "short"], [BaseFile EXCEPT !.magic = "RIFFWAVE"] }
    \cup { [BaseFile EXCEPT !.magic = m, !.trunc = t] :
              m \in {"MinPHR00", "MinPHR01"}, t \in {"header", "table", "data"} }
    \cup { [BaseFile EXCEPT !.magic = m, !.irSize = s] :
              m \in {"MinPHR00", "MinPHR01"}, s \in {6, 9} }
    \cup { [BaseFile EXCEPT !.magic = "MinPHR00", !.irSize = MAX_IR_SIZE + 2] }
    \cup { [BaseFile EXCEPT !.magic = m, !.evCount = Fn0(<<4>>)] :
              m \in {"MinPHR00", "MinPHR01"} }
    \cup { [BaseFile EXCEPT !.magic = m, !.delays = DelayTable(9, "over")] :
              m \in {"MinPHR00", "MinPHR01"} }
    \cup { [BaseFile EXCEPT !.azCount = Fn0(<<1, 2, 0, 2, 1>>)],
           [BaseFile EXCEPT !.magic = "MinPHR00", !.evOffset = Fn0(<<0, 1, 3, 3, 8>>)],
           [BaseFile EXCEPT !.magic = "MinPHR00", !.irCount = 8],
           [BaseFile EXCEPT !.magic = "MinPHR00", !.evOffset = Fn0(<<0, 1, 3, 6, 300>>),
                            !.irCount = 301] }
    \cup { [V2File(1) EXCEPT !.trunc = t] : t \in {"header", "table", "data"} }
    \cup { [V2File(1) EXCEPT !.sampleType = 2], [V2File(1) EXCEPT !.channelType = 2],
           [V2File(1) EXCEPT !.irSize = 6], [V2File(1) EXCEPT !.fdCount = 0],
           [V2File(1) EXCEPT !.fdCount = MAX_FD_COUNT + 1],
           [V2File(1) EXCEPT !.distance = Fn0(<<MIN_FD_DISTANCE - 1>>)],
           [V2File(1) EXCEPT !.distance = Fn0(<<MAX_FD_DISTANCE + 1>>)],
           [V2File(1) EXCEPT !.evCount = Fn0(<<MAX_EV_COUNT + 1>>)],
           [V2File(1) EXCEPT !.azCount = Fn0(<<1, 2, 0, 2, 1>>)],
           [V2File(1) EXCEPT !.delays = DelayTable(9, "over")],
           [V2File(1) EXCEPT !.channelType = CHANTYPE_LEFTRIGHT,
                             !.delays = [i \in 0..8 |-> <<0, MAX_HRIR_DELAY + 1>>]],
           [V2File(2) EXCEPT !.distance = Fn0(<<400, 200>>)],
           [V2File(2) EXCEPT !.distance = Fn0(<<200, 200>>)] }

LoaderFiles == GoodFiles \cup BadFiles

(***************************************************************************)
(* The environment of the enumeration and the cache: the configuration,    *)
(* the data directories and the files.  ConfigValueStr, ConfigValueUInt    *)
(* and SearchDataFiles are not among the sources; they are tables here.    *)
(***************************************************************************)
MHR == <<".", "m", "h", "r">>
DefaultSubdir == <<"o", "p", "e", "n", "a", "l", "/", "h", "r", "t", "f">>
BuiltInName == <<"B", "u", "i", "l", "t", "-", "I", "n", " ", "H", "R", "T", "F">>
UnknownName == <<"n", "n">>

Devices == {"dev1", "dev2"}

\* dev1 has no option set; dev2 sets hrtf-paths = "a, !2_", hrtf-size = 10
\* and default-hrtf = "y".
ConfigValueStr(devname, key) ==
    IF devname = "dev2" /\ key = "hrtf-paths" THEN << <<"a", ",", " ", "!", "2", "_">> >>
    ELSE IF devname = "dev2" /\ key = "default-hrtf" THEN << <<"y">> >>
    ELSE <<>>

ConfigValueUInt(devname, key) ==
    IF devname = "dev2" /\ key = "hrtf-size" THEN <<10>> ELSE <<>>

\* The .mhr files found under a directory, as full names.
SearchDataFiles(ext, subdir) ==
    IF subdir = <<"a">>
    THEN << <<"a", "/", "x">> \o ext, <<"a", "/", "y">> \o ext, <<"a", "/", "z">> \o ext >>
    ELSE IF subdir = <<"!", "2", "_">> THEN << <<"!", "2", "_", "/", "w">> \o ext >>
    ELSE IF subdir = DefaultSubdir THEN << <<"d", "/", "x">> \o ext >>
    ELSE IF subdir = <<"b">> THEN << <<"b", "/", "x">> \o ext, <<"b", "/", "x">> \o ext >>
    ELSE IF subdir = <<"c">> THEN << <<"c", "/", "x">> \o ext, <<"a", "/", "x">> \o ext >>
    ELSE IF subdir = <<"e">> THEN << <<"e", "/", "x", " ", "#", "2">> \o ext >>
    ELSE <<>>

\* A V1 file of five IRs of twelve taps.
SmallFile ==
    [ BaseFile EXCEPT !.irSize = 12, !.irCount = 5, !.evOffset = Fn0(<<0, 1, 2, 3, 4>>),
                      !.azCount = Fn0(<<1, 1, 1, 1, 1>>), !.delays = DelayTable(5, "low") ]

\* What opening a file gives: its data, or NULL when it cannot be opened.
\* a/y.mhr is no HRTF data set and a/z.mhr cannot be opened.
FileData(fname) ==
    IF fname = <<"d", "/", "x">> \o MHR THEN SmallFile
    ELSE IF fname = <<"a", "/", "x">> \o MHR
         THEN [SmallFile EXCEPT !.magic = "MinPHR00", !.irSize = 8]
    ELSE IF fname = <<"a", "/", "y">> \o MHR THEN [BaseFile EXCEPT !.magic = "RIFFWAVE"]
    ELSE NULL

IDR_DEFAULT_HRTF_MHR == 1
ALSOFT_EMBED_HRTF_DATA == TRUE

\* Lines 1188-1200: the embedded data set, NULL for an empty span.
GetResource(name) ==
    IF ALSOFT_EMBED_HRTF_DATA /\ name = IDR_DEFAULT_HRTF_MHR
    THEN [SmallFile EXCEPT !.magic = "MinPHR02", !.distance = Fn0(<<300>>)]
    ELSE NULL

(***************************************************************************)
(* EnumerateHrtf and its helpers.                                          *)
(***************************************************************************)
checkName(entries, name) == \E i \in 1..Len(entries) : entries[i].mDispName = name

\* The while loop of AddFileEntry and AddBuiltInEntry, entered with count.
RECURSIVE NewName(_, _, _, _)
NewName(entries, basename, newname, count) ==
    IF checkName(entries, newname)
    THEN NewName(entries, basename, basename \o <<" ", "#">> \o to_string(count + 1),
                 count + 1)
    ELSE newname

AddFileEntry(entries, filename) ==
    IF \E i \in 1..Len(entries) : entries[i].mFilename = filename THEN entries
    ELSE LET slash == find_last_of(filename, "/") + 1
             namepos == IF slash = 0 THEN find_last_of(filename, "\\") + 1 ELSE slash
             dot == find_last_of(filename, ".")
             extpos == IF dot # npos /\ dot <= namepos THEN npos ELSE dot
             basename == IF extpos = npos THEN substr(filename, namepos, npos)
                         ELSE substr(filename, namepos, extpos - namepos)
         IN  Append(entries, [mDispName |-> NewName(entries, basename, basename, 1),
                              mFilename |-> filename])

AddBuiltInEntry(entries, dispname, residx) ==
    LET filename == <<"!">> \o to_string(residx) \o <<"_">> \o dispname
    IN  IF \E i \in 1..Len(entries) : entries[i].mFilename = filename THEN entries
        ELSE Append(entries, [mDispName |-> NewName(entries, dispname, dispname, 1),
                              mFilename |-> filename])

RECURSIVE AddFileEntries(_, _)
AddFileEntries(entries, fnames) ==
    IF fnames = <<>> THEN entries
    ELSE AddFileEntries(AddFileEntry(entries, Head(fnames)), Tail(fnames))

\* Lines 1213-1245: the loop over the hrtf-paths list, from position p of
\* str (0-based, Len(str) is the terminating NUL).
RECURSIVE PathLoop(_, _, _, _)
PathLoop(str, p, entries, usedefaults) ==
    LET n == Len(str)
        skipped == { q \in p..n : \A k \in p..(q - 1) : isspace(str[k + 1]) \/ str[k + 1] = "," }
        start == CHOOSE q \in skipped : \A r \in skipped : r <= q
        commas == { q \in start..(n - 1) : str[q + 1] = "," }
        next == IF commas = {} THEN npos
                ELSE (CHOOSE q \in commas : \A r \in commas : q <= r) + 1
        end0 == IF next = npos THEN n ELSE next - 1
        trimmed == { q \in start..end0 : \A k \in q..(end0 - 1) : isspace(str[k + 1]) }
        end == CHOOSE q \in trimmed : \A r \in trimmed : q <= r
        pname == SubSeq(str, start + 1, end)
        added == IF end # start THEN AddFileEntries(entries, SearchDataFiles(MHR, pname))
                 ELSE entries
    IN  IF p = npos \/ p >= n THEN [entries |-> entries, usedefaults |-> usedefaults]
        ELSE IF start = n THEN [entries |-> entries, usedefaults |-> usedefaults]
        ELSE PathLoop(str, next, added, usedefaults /\ next # npos)

\* std::rotate(list.begin(), iter, iter+1): the element at iter moves first.
RotateToFront(list, i) ==
    <<list[i]>> \o SubSeq(list, 1, i - 1) \o SubSeq(list, i + 1, Len(list))

\* Lines 1211-1246: the entries of the hrtf-paths option, and whether the
\* default directory is searched as well.
ConfiguredEntries(entries, pathopt) ==
    IF pathopt # <<>> THEN PathLoop(pathopt[1], 0, entries, TRUE)
    ELSE [entries |-> entries, usedefaults |-> TRUE]

\* Lines 1248-1255.
DefaultEntries(paths, resource) ==
    IF ~paths.usedefaults THEN paths.entries
    ELSE IF resource = NULL
         THEN AddFileEntries(paths.entries, SearchDataFiles(MHR, DefaultSubdir))
    ELSE AddBuiltInEntry(AddFileEntries(paths.entries, SearchDataFiles(MHR, DefaultSubdir)),
                         BuiltInName, IDR_DEFAULT_HRTF_MHR)

\* Lines 1262-1267: list with the default-hrtf name, if it is there, first.
DefaultFirst(list, found) ==
    IF found = {} \/ 1 \in found THEN list
    ELSE RotateToFront(list, CHOOSE i \in found : \A j \in found : i <= j)

\* Lines 1257-1269: the returned list of display names.
EnumeratedList(entries, defhrtfopt) ==
    DefaultFirst([i \in 1..Len(entries) |-> entries[i].mDispName],
                 { i \in 1..Len(entries) :
                     defhrtfopt # <<>> /\ entries[i].mDispName = defhrtfopt[1] })

\* Line 1209: EnumeratedHrtfs.clear().
clear(entries) == <<>>

\* Lines 1209-1255: EnumeratedHrtfs after a call that found it as old.
EnumeratedAfter(old, pathopt) ==
    DefaultEntries(ConfiguredEntries(clear(old), pathopt), GetResource(IDR_DEFAULT_HRTF_MHR))

\* The body of EnumerateHrtf under the lock: the new EnumeratedHrtfs.
EnumerateHrtf(devname) ==
    EnumeratedAfter(EnumeratedHrtfs, ConfigValueStr(devname, "hrtf-paths"))

(***************************************************************************)
(* The cache of loaded stores: GetLoadedHrtf, IncRef and DecRef.           *)
(***************************************************************************)
NThreads == 2
MaxCalls == 4
Threads == 1..NThreads
CacheRates == {44100, 48000}

nullptr == 0
Unlocked == 0

\* std::mutex::lock returns when no thread holds the mutex.
CanLock(m) == m = Unlocked

\* The end of a lock_guard's scope.
Release(m, t) == IF m = t THEN Unlocked ELSE m

\* The object a store pointer points to, NULL for nullptr.
Deref(hp, ptr) == IF ptr = nullptr THEN NULL ELSE hp[ptr]

IncrementRef(hrtf) == [hrtf EXCEPT !.mRef = @ + 1]
DecrementRef(hrtf) == [hrtf EXCEPT !.mRef = @ - 1]

\* Lines 1428-1438: the predicate of DecRef's sweep on one slot's store.
remove_unused(entry) == entry # NULL /\ entry.mRef = 0

\* Lines 1439-1440: std::remove_if and erase.
sweep(cache, hp) ==
    SelectSeq(cache, LAMBDA slot : ~remove_unused(Deref(hp, slot.mEntry)))

\* The pointers the sweep destroys.
swept(cache, hp) ==
    { cache[i].mEntry : i \in { j \in 1..Len(cache) :
                                  remove_unused(Deref(hp, cache[j].mEntry)) } }

\* Lines 1283-1285: std::lower_bound with hrtf_lt_fname, as an index from 1.
lower_bound(cache, fname) ==
    LET ge == { i \in 1..Len(cache) : ~StrLess(cache[i].mFilename, fname) }
    IN  IF ge = {} THEN Len(cache) + 1 ELSE CHOOSE i \in ge : \A j \in ge : i <= j

\* Line 1289: the test of a slot's store against the requested rate.
CacheMatch(hrtf, devrate) == hrtf # NULL /\ hrtf.sampleRate = devrate

\* Lines 1286-1295: the scan from handle; hit is the matching store or
\* nullptr, handle is where the scan stopped.
RECURSIVE Scan(_, _, _, _, _)
Scan(cache, hp, fname, devrate, handle) ==
    IF handle <= Len(cache) /\ cache[handle].mFilename = fname
    THEN IF CacheMatch(Deref(hp, cache[handle].mEntry), devrate)
         THEN [hit |-> cache[handle].mEntry, handle |-> handle]
         ELSE Scan(cache, hp, fname, devrate, handle + 1)
    ELSE [hit |-> nullptr, handle |-> handle]

\* A hit that applies the hrtf-size option again.
HitStoreResized(hrtf, hrtfsizeopt) == IncrementRef(ApplyHrtfSize(hrtf, hrtfsizeopt))

\* Lines 1290-1292: what a hit does to the store; hrtfsizeopt is the value
\* of the hrtf-size option at the time of the call, which the code does not
\* read on this path.
HitStore(hrtf, hrtfsizeopt) == IncrementRef(hrtf)

\* The digits of str from position p (from 1) on.
RECURSIVE DigitRun(_, _)
DigitRun(str, p) ==
    IF p <= Len(str) /\ IsDigit(str[p]) THEN <<str[p]>> \o DigitRun(str, p + 1) ELSE <<>>

RECURSIVE DigitsValue(_)
DigitsValue(ds) ==
    IF ds = <<>> THEN 0 ELSE DigitsValue(SubSeq(ds, 1, Len(ds) - 1)) * 10 + DigitValue(ds[Len(ds)])

\* Line 1300: sscanf(fname, "!%d%c", &residx, &ch) == 2 && ch == '_', for
\* names with no sign and no blank after the '!'.  <<residx>> or <<>>.
ResourceIndex(fname) ==
    LET ds == IF Len(fname) >= 1 /\ fname[1] = "!" THEN DigitRun(fname, 2) ELSE <<>>
    IN  IF ds # <<>> /\ Len(fname) >= Len(ds) + 2 /\ fname[Len(ds) + 2] = "_"
        THEN <<DigitsValue(ds)>> ELSE <<>>

\* Lines 1297-1321: the data behind fname, NULL if there is none.
OpenStream(fname) ==
    IF ResourceIndex(fname) # <<>> THEN GetResource(ResourceIndex(fname)[1])
    ELSE FileData(fname)

\* LoadedHrtfs.emplace(handle, slot).
emplace(cache, handle, slot) ==
    SubSeq(cache, 1, handle - 1) \o <<slot>> \o SubSeq(cache, handle, Len(cache))

\* A slot is inserted whether the load gave a store or not.
PublishAlways(cache, handle, fname, entry) ==
    emplace(cache, handle, [mFilename |-> fname, mEntry |-> entry])

\* Lines 1347-1351 and 1408: nothing is inserted when the load failed.
Publish(cache, handle, fname, entry) ==
    IF entry = nullptr THEN cache
    ELSE emplace(cache, handle, [mFilename |-> fname, mEntry |-> entry])

NoLocals == [name |-> <<>>, fname |-> <<>>, hrtf |-> nullptr]
NoReturn == [hrtf |-> nullptr, list |-> <<>>]

CacheInit ==
    /\ EnumeratedHrtfLock = Unlocked
    /\ LoadedHrtfLock = Unlocked
    /\ EnumeratedHrtfs = <<>>
    /\ LoadedHrtfs = <<>>
    /\ heap = <<>>
    /\ freed = {}
    /\ origin = <<>>
    /\ pc = [t \in Threads |-> "idle"]
    /\ local = [t \in Threads |-> NoLocals]
    /\ held = [t \in Threads |-> EmptyBag]
    /\ ret = [t \in Threads |-> NoReturn]
    /\ calls = 0
    /\ hist = <<>>

LoadIdle ==
    /\ ldFile = NULL
    /\ ldDevrate = 0
    /\ ldHrtfSize = <<>>
    /\ ldHrtf = NULL
    /\ ldPc = "none"

EnumIdle ==
    /\ enPathOpt = <<>>
    /\ enDefOpt = <<>>
    /\ enList = <<>>
    /\ enFirst = <<>>
    /\ enCalls = 0

QueryIdle ==
    /\ qHrtf = NULL
    /\ qArgs = <<>>
    /\ qOut = <<>>
    /\ qPc = "none"
    /\ qPoints = <<>>
    /\ qState = <<>>

Init == CacheInit /\ LoadIdle /\ EnumIdle /\ QueryIdle

\* A thread starts a call; it first requests the lock the call begins with.
CallEnumerateHrtf(t) ==
    /\ pc[t] = "idle" /\ calls < MaxCalls
    /\ pc' = [pc EXCEPT ![t] = "EnumerateHrtf:lock"]
    /\ calls' = calls + 1
    /\ UNCHANGED <<EnumeratedHrtfLock, LoadedHrtfLock, EnumeratedHrtfs, LoadedHrtfs,
                   heap, freed, origin, local, held, ret, hist, otherVars>>

\* Line 1208: the lock_guard on EnumeratedHrtfLock.
EnumerateLock(t) ==
    /\ pc[t] = "EnumerateHrtf:lock" /\ CanLock(EnumeratedHrtfLock)
    /\ EnumeratedHrtfLock' = t
    /\ pc' = [pc EXCEPT ![t] = "EnumerateHrtf:body"]
    /\ UNCHANGED <<LoadedHrtfLock, EnumeratedHrtfs, LoadedHrtfs, heap, freed, origin,
                   local, held, ret, calls, hist, otherVars>>

\* Lines 1209-1270: the enumeration is rebuilt and the list returned.
EnumerateBody(t) ==
    /\ pc[t] = "EnumerateHrtf:body"
    /\ \E devname \in Devices :
          /\ EnumeratedHrtfs' = EnumerateHrtf(devname)
          /\ ret' = [ret EXCEPT ![t] =
                       [hrtf |-> nullptr,
                        list |-> EnumeratedList(EnumeratedHrtfs',
                                     ConfigValueStr(devname, "default-hrtf"))]]
    /\ EnumeratedHrtfLock' = Release(EnumeratedHrtfLock, t)
    /\ pc' = [pc EXCEPT ![t] = "idle"]
    /\ hist' = <<>>
    /\ UNCHANGED <<LoadedHrtfLock, LoadedHrtfs, heap, freed, origin, local, held, calls,
                   otherVars>>

CallGetLoadedHrtf(t) ==
    /\ pc[t] = "idle" /\ calls < MaxCalls
    /\ pc' = [pc EXCEPT ![t] = "GetLoadedHrtf:lockEnum"]
    /\ calls' = calls + 1
    /\ UNCHANGED <<EnumeratedHrtfLock, LoadedHrtfLock, EnumeratedHrtfs, LoadedHrtfs,
                   heap, freed, origin, local, held, ret, hist, otherVars>>

\* Line 1274: the lock_guard on EnumeratedHrtfLock.
GetLockEnum(t) ==
    /\ pc[t] = "GetLoadedHrtf:lockEnum" /\ CanLock(EnumeratedHrtfLock)
    /\ EnumeratedHrtfLock' = t
    /\ pc' = [pc EXCEPT ![t] = "GetLoadedHrtf:lookup"]
    /\ UNCHANGED <<LoadedHrtfLock, EnumeratedHrtfs, LoadedHrtfs, heap, freed, origin,
                   local, held, ret, calls, hist, otherVars>>

\* Lines 1275-1280: the name is looked up; it is an enumerated name or not.
GetLookup(t) ==
    /\ pc[t] = "GetLoadedHrtf:lookup"
    /\ \E name \in { EnumeratedHrtfs[i].mDispName : i \in 1..Len(EnumeratedHrtfs) }
                      \cup {UnknownName} :
          LET found == { i \in 1..Len(EnumeratedHrtfs) : EnumeratedHrtfs[i].mDispName = name }
          IN  IF found = {}
              THEN /\ ret' = [ret EXCEPT ![t] = NoReturn]
                   /\ EnumeratedHrtfLock' = Release(EnumeratedHrtfLock, t)
                   /\ pc' = [pc EXCEPT ![t] = "idle"]
                   /\ UNCHANGED local
              ELSE LET entry_iter == CHOOSE i \in found : \A j \in found : i <= j
                   IN  /\ local' = [local EXCEPT ![t] =
                                      [name |-> name,
                                       fname |-> EnumeratedHrtfs[entry_iter].mFilename,
                                       hrtf |-> nullptr]]
                       /\ pc' = [pc EXCEPT ![t] = "GetLoadedHrtf:lockLoaded"]
                       /\ UNCHANGED <<ret, EnumeratedHrtfLock>>
    /\ UNCHANGED <<LoadedHrtfLock, EnumeratedHrtfs, LoadedHrtfs, heap, freed, origin,
                   held, calls, hist, otherVars>>

\* Line 1282: the lock_guard on LoadedHrtfLock.
GetLockLoaded(t) ==
    /\ pc[t] = "GetLoadedHrtf:lockLoaded" /\ CanLock(LoadedHrtfLock)
    /\ LoadedHrtfLock' = t
    /\ pc' = [pc EXCEPT ![t] = "GetLoadedHrtf:scan"]
    /\ UNCHANGED <<EnumeratedHrtfLock, EnumeratedHrtfs, LoadedHrtfs, heap, freed, origin,
                   local, held, ret, calls, hist, otherVars>>

\* The entry a successful call adds to hist.
Remember(h, rec) == IF Len(h) = 2 THEN <<h[2], rec>> ELSE Append(h, rec)

\* Lines 1290-1292: the store found by the scan is returned with its count
\* raised.
GetHit(t, name, devrate, hrtfsizeopt, hit) ==
    /\ heap' = [heap EXCEPT ![hit] = HitStore(@, hrtfsizeopt)]
    /\ ret' = [ret EXCEPT ![t] = [hrtf |-> hit, list |-> <<>>]]
    /\ held' = [held EXCEPT ![t] = @ (+) SetToBag({hit})]
    /\ hist' = Remember(hist, [name |-> name, devrate |-> devrate, hrtf |-> hit,
                               hrtfsize |-> hrtfsizeopt, fresh |-> FALSE,
                               reload |-> FALSE, ref |-> heap'[hit].mRef])
    /\ UNCHANGED <<LoadedHrtfs, origin>>

\* Lines 1297-1411: hrtf is what the load gave, new the pointer to it.
GetMiss(t, name, fname, devrate, hrtfsizeopt, handle, hrtf, new) ==
    /\ LoadedHrtfs' = Publish(LoadedHrtfs, handle, fname, new)
    /\ ret' = [ret EXCEPT ![t] = [hrtf |-> new, list |-> <<>>]]
    /\ IF new = nullptr
       THEN UNCHANGED <<heap, origin, held, hist>>
       ELSE /\ heap' = Append(heap, hrtf)
            /\ origin' = Append(origin, fname)
            /\ held' = [held EXCEPT ![t] = @ (+) SetToBag({new})]
            /\ hist' = Remember(hist,
                   [name |-> name, devrate |-> devrate, hrtf |-> new,
                    hrtfsize |-> hrtfsizeopt, fresh |-> TRUE,
                    reload |-> \E old \in freed : /\ origin[old] = fname
                                                  /\ heap[old].sampleRate = devrate,
                    ref |-> hrtf.mRef])

\* Lines 1283-1411: the cache is scanned; on a hit the store's count is
\* raised, on a miss the data is loaded, conditioned and inserted, or the
\* call fails.  Both locks are released on return.
GetScan(t) ==
    /\ pc[t] = "GetLoadedHrtf:scan"
    /\ \E devname \in Devices, devrate \in CacheRates :
          \E s \in { Scan(LoadedHrtfs, heap, local[t].fname, devrate,
                          lower_bound(LoadedHrtfs, local[t].fname)) } :
             IF s.hit # nullptr
             THEN GetHit(t, local[t].name, devrate, ConfigValueUInt(devname, "hrtf-size"),
                         s.hit)
             ELSE \E hrtf \in { LoadAndCondition(OpenStream(local[t].fname), devrate,
                                    ConfigValueUInt(devname, "hrtf-size")) } :
                     GetMiss(t, local[t].name, local[t].fname, devrate,
                             ConfigValueUInt(devname, "hrtf-size"), s.handle, hrtf,
                             IF hrtf = NULL THEN nullptr ELSE Len(heap) + 1)
    /\ LoadedHrtfLock' = Release(LoadedHrtfLock, t)
    /\ EnumeratedHrtfLock' = Release(EnumeratedHrtfLock, t)
    /\ pc' = [pc EXCEPT ![t] = "idle"]
    /\ local' = [local EXCEPT ![t] = NoLocals]
    /\ UNCHANGED <<EnumeratedHrtfs, freed, calls, otherVars>>

\* Lines 1414-1418, called by a thread on a store it holds a reference to.
IncRef(t) ==
    /\ pc[t] = "idle" /\ calls < MaxCalls
    /\ \E ptr \in BagToSet(held[t]) :
          /\ heap' = [heap EXCEPT ![ptr] = IncrementRef(@)]
          /\ held' = [held EXCEPT ![t] = @ (+) SetToBag({ptr})]
    /\ calls' = calls + 1
    /\ hist' = <<>>
    /\ UNCHANGED <<EnumeratedHrtfLock, LoadedHrtfLock, EnumeratedHrtfs, LoadedHrtfs,
                   freed, origin, pc, local, ret, otherVars>>

\* Lines 1422-1424: the count is lowered; the caller's reference is gone.
DecRef(t) ==
    /\ pc[t] = "idle" /\ calls < MaxCalls
    /\ \E ptr \in BagToSet(held[t]) :
          /\ heap' = [heap EXCEPT ![ptr] = DecrementRef(@)]
          /\ held' = [held EXCEPT ![t] = @ (-) SetToBag({ptr})]
          /\ IF heap'[ptr].mRef = 0
             THEN /\ pc' = [pc EXCEPT ![t] = "DecRef:lock"]
                  /\ local' = [local EXCEPT ![t] = [NoLocals EXCEPT !.hrtf = ptr]]
             ELSE UNCHANGED <<pc, local>>
    /\ calls' = calls + 1
    /\ hist' = <<>>
    /\ UNCHANGED <<EnumeratedHrtfLock, LoadedHrtfLock, EnumeratedHrtfs, LoadedHrtfs,
                   freed, origin, ret, otherVars>>

\* Line 1426: the lock_guard on LoadedHrtfLock.
DecRefLock(t) ==
    /\ pc[t] = "DecRef:lock" /\ CanLock(LoadedHrtfLock)
    /\ LoadedHrtfLock' = t
    /\ pc' = [pc EXCEPT ![t] = "DecRef:sweep"]
    /\ UNCHANGED <<EnumeratedHrtfLock, EnumeratedHrtfs, LoadedHrtfs, heap, freed, origin,
                   local, held, ret, calls, hist, otherVars>>

\* Lines 1428-1441: every slot whose store has no reference is removed and
\* its store destroyed.
DecRefSweep(t) ==
    /\ pc[t] = "DecRef:sweep"
    /\ LoadedHrtfs' = sweep(LoadedHrtfs, heap)
    /\ freed' = freed \cup swept(LoadedHrtfs, heap)
    /\ LoadedHrtfLock' = Release(LoadedHrtfLock, t)
    /\ pc' = [pc EXCEPT ![t] = "idle"]
    /\ local' = [local EXCEPT ![t] = NoLocals]
    /\ UNCHANGED <<EnumeratedHrtfLock, EnumeratedHrtfs, heap, origin, held, ret, calls,
                   hist, otherVars>>

Next ==
    \E t \in Threads :
        \/ CallEnumerateHrtf(t) \/ EnumerateLock(t) \/ EnumerateBody(t)
        \/ CallGetLoadedHrtf(t) \/ GetLockEnum(t) \/ GetLookup(t)
        \/ GetLockLoaded(t) \/ GetScan(t)
        \/ IncRef(t)
        \/ DecRef(t) \/ DecRefLock(t) \/ DecRefSweep(t)

Spec == Init /\ [][Next]_vars

\* The return of GetLoadedHrtf from its scan.  Of the steps of Next it is
\* GetScan(t) alone that takes pc[t] from the scan to "idle", and GetScan(t)
\* can be taken whenever pc[t] is at the scan.
ScanReturns(t) ==
    pc[t] = "GetLoadedHrtf:scan" /\ pc' = [pc EXCEPT ![t] = "idle"]

\* Every call in progress is scheduled again, and a thread that waits for a
\* mutex that is free again and again gets it.
Fairness ==
    \A t \in Threads :
        /\ WF_vars(EnumerateBody(t) \/ GetLookup(t) \/ DecRefSweep(t))
        /\ WF_pc(ScanReturns(t))
        /\ SF_vars(EnumerateLock(t) \/ GetLockEnum(t) \/ GetLockLoaded(t) \/ DecRefLock(t))

FairSpec == Spec /\ Fairness

(***************************************************************************)
(* Properties of the cache (Spec, FairSpec).                               *)
(***************************************************************************)
\* C1: under every interleaving of GetLoadedHrtf, IncRef and DecRef calls of
\* several threads, no store is destroyed while its reference count is
\* greater than zero, that is while some caller holds a reference it has
\* not released.
NoSweepWhileReferenced ==
    \A ptr \in 1..Len(heap) :
        (heap[ptr].mRef > 0 \/ \E t \in Threads : BagIn(ptr, held[t])) => ptr \notin freed

\* A sweep has destroyed a store while a thread holds a reference to another.
SweepSparedWitness ==
    /\ freed # {}
    /\ \E t \in Threads : \E ptr \in BagToSet(held[t]) :
          \E i \in 1..Len(LoadedHrtfs) : LoadedHrtfs[i].mEntry = ptr

\* C2: two successive successful GetLoadedHrtf calls with the same display
\* name and devrate, with no other call on the cache in between, return the
\* same store and its reference count grows by one with each; when the first
\* of them loaded the store the count is 1 after it and 2 after the second,
\* which is a cache hit.
SameStoreTwice ==
    (Len(hist) = 2 /\ hist[1].name = hist[2].name /\ hist[1].devrate = hist[2].devrate) =>
        /\ hist[2].hrtf = hist[1].hrtf
        /\ hist[2].ref = hist[1].ref + 1
        /\ ~hist[2].fresh
        /\ hist[1].fresh => (hist[1].ref = 1 /\ hist[2].ref = 2)

\* A fresh load followed by a call for the same name and devrate.
LoadThenHitWitness ==
    /\ Len(hist) = 2 /\ hist[1].name = hist[2].name /\ hist[1].devrate = hist[2].devrate
    /\ hist[1].fresh

\* C3: once every reference to a cached store has been released and the last
\* DecRef has returned, the cache holds no slot for the store: a slot whose
\* store has count zero exists only while the DecRef that lowered the count
\* to zero has not returned.  No slot points to a destroyed store, so the
\* next GetLoadedHrtf for the name and devrate cannot hit it: a store it
\* loads is a new one with reference count 1.
ReleasedStoreLeavesCache ==
    /\ \A i \in 1..Len(LoadedHrtfs) :
          /\ LoadedHrtfs[i].mEntry # nullptr
          /\ LoadedHrtfs[i].mEntry \notin freed
          /\ heap[LoadedHrtfs[i].mEntry].mRef = 0 =>
                \E t \in Threads : /\ pc[t] \in {"DecRef:lock", "DecRef:sweep"}
                                   /\ local[t].hrtf = LoadedHrtfs[i].mEntry
    /\ \A k \in 1..Len(hist) :
          /\ hist[k].hrtf \notin freed
          /\ hist[k].fresh => hist[k].ref = 1
          /\ hist[k].reload => hist[k].fresh

\* A store has been loaded again after an earlier store of the same file and
\* rate was released and destroyed.
ReloadWitness ==
    \E k \in 1..Len(hist) : hist[k].reload /\ hist[k].fresh /\ hist[k].ref = 1

\* The lock order: a thread that requests EnumeratedHrtfLock does not hold
\* LoadedHrtfLock.
LockOrder ==
    \A t \in Threads :
        pc[t] \in {"EnumerateHrtf:lock", "GetLoadedHrtf:lockEnum"} =>
            (LoadedHrtfLock # t /\ EnumeratedHrtfLock # t)

\* C4: no thread ever requests EnumeratedHrtfLock while it holds
\* LoadedHrtfLock, and under fair scheduling every EnumerateHrtf,
\* GetLoadedHrtf and DecRef call that has started completes.
LockOrderAndProgress ==
    /\ []LockOrder
    /\ \A t \in Threads : (pc[t] # "idle") ~> (pc[t] = "idle")

\* A GetLoadedHrtf holds EnumeratedHrtfLock and waits for LoadedHrtfLock,
\* which a DecRef holds, while another call waits for EnumeratedHrtfLock.
ContentionWitness ==
    \E t \in Threads : \E u \in Threads \ {t} :
        /\ pc[t] = "GetLoadedHrtf:lockLoaded" /\ EnumeratedHrtfLock = t
        /\ pc[u] = "DecRef:sweep" /\ LoadedHrtfLock = u

\* C5: a GetLoadedHrtf call that fails returns null and leaves LoadedHrtfs
\* and every store as they were: no step of the call other than the
\* successful end of the scan changes the cache, a call returns null
\* whenever the name is unknown or the data cannot be loaded, and a call
\* that returns null has changed nothing.
FailureLeavesCache ==
    [][ \A t \in Threads :
          /\ ( /\ pc[t] \in {"GetLoadedHrtf:lockEnum", "GetLoadedHrtf:lookup",
                              "GetLoadedHrtf:lockLoaded", "GetLoadedHrtf:scan"}
               /\ pc'[t] # pc[t]
               /\ (pc'[t] # "idle" \/ ret'[t].hrtf = nullptr) )
             => UNCHANGED <<LoadedHrtfs, heap, freed>>
          /\ ( /\ pc[t] = "GetLoadedHrtf:scan" /\ pc'[t] = "idle"
               /\ LoadStream(OpenStream(local[t].fname)) = NULL
               /\ \A i \in 1..Len(LoadedHrtfs) :
                     LoadedHrtfs[i].mFilename # local[t].fname )
             => ret'[t].hrtf = nullptr
    ]_vars

\* A thread that holds a reference from an earlier call has had a later
\* GetLoadedHrtf call fail, with the cache not empty.
FailedCallWitness ==
    /\ LoadedHrtfs # <<>>
    /\ \E t \in Threads : pc[t] = "idle" /\ ret[t] = NoReturn /\ held[t] # EmptyBag

\* C6: a cache hit changes nothing in the returned store but its reference
\* count, nothing in any other store and nothing in LoadedHrtfs, whatever the
\* hrtf-size option is at the time of the call.
HitChangesOnlyRef ==
    [][ \A t \in Threads :
          ( /\ pc[t] = "GetLoadedHrtf:scan" /\ pc'[t] = "idle"
            /\ ret'[t].hrtf # nullptr /\ ret'[t].hrtf <= Len(heap) )
          => /\ heap' = [heap EXCEPT ![ret'[t].hrtf].mRef = @ + 1]
             /\ LoadedHrtfs' = LoadedHrtfs
    ]_vars

\* A hit on a store that is longer than the hrtf-size option of the hitting
\* call allows.
HitUnderSmallerSizeWitness ==
    \E k \in 1..Len(hist) :
        /\ ~hist[k].fresh
        /\ hist[k].hrtfsize # <<>>
        /\ hist[k].hrtfsize[1] < heap[hist[k].hrtf].irSize

(***************************************************************************)
(* SpecLoad: one load by GetLoadedHrtf on a cache miss, for every input    *)
(* file, device rate and hrtf-size option of the sets above.               *)
(***************************************************************************)
LoadInit ==
    /\ ldFile \in LoaderFiles
    /\ ldDevrate \in DevRates
    /\ ldHrtfSize \in HrtfSizeOpts
    /\ ldHrtf = NULL
    /\ ldPc = "call"
    /\ CacheInit
    /\ EnumIdle
    /\ QueryIdle

LoadOk ==
    /\ ldPc = "call"
    /\ LoadStream(ldFile) # NULL
    /\ ldHrtf' = LoadAndCondition(ldFile, ldDevrate, ldHrtfSize)
    /\ ldPc' = "loaded"
    /\ UNCHANGED <<ldFile, ldDevrate, ldHrtfSize, enVars, qVars, cacheVars>>

LoadFail ==
    /\ ldPc = "call"
    /\ LoadStream(ldFile) = NULL
    /\ ldHrtf' = NULL
    /\ ldPc' = "failed"
    /\ UNCHANGED <<ldFile, ldDevrate, ldHrtfSize, enVars, qVars, cacheVars>>

LoadNext == LoadOk \/ LoadFail

SpecLoad == LoadInit /\ [][LoadNext]_vars

(***************************************************************************)
(* Properties of the store a load publishes (SpecLoad).                    *)
(***************************************************************************)
\* C7: every store returned by GetLoadedHrtf has an irSize that is a
\* multiple of MOD_IR_SIZE and lies in [MIN_IR_SIZE, MAX_IR_SIZE], after
\* resampling and after the hrtf-size option.  The code does not keep this:
\* resampling to a lower device rate scales irSize down with no lower limit.
IrSizeSupported ==
    ldPc = "loaded" => ~IrSizeUnsupported(ldHrtf.irSize)

\* C8: in every store returned by GetLoadedHrtf, both channels of every tap
\* j with irSize <= j < HRIR_LENGTH of every IR are zero, for the final
\* irSize.  The code does not keep this: the hrtf-size option lowers irSize
\* and leaves the taps of the file in place.
TailTapsZero ==
    ldPc = "loaded" =>
        \A i \in DOMAIN ldHrtf.coeffs :
            \A j \in ldHrtf.irSize..(HRIR_LENGTH - 1) :
                HrirTap(ldHrtf.coeffs[i], j) = <<0, 0>>

\* C9: in every store returned by GetLoadedHrtf every delay of every IR and
\* both channels is at most MAX_HRIR_DELAY * HRIR_DELAY_FRACONE.
DelaysInRange ==
    ldPc = "loaded" =>
        \A i \in DOMAIN ldHrtf.delays : \A c \in 1..2 :
            ldHrtf.delays[i][c] <= MAX_HRIR_DELAY * HRIR_DELAY_FRACONE

\* A resampled store in which a delay sits at the limit.
DelayClampedWitness ==
    /\ ldPc = "loaded"
    /\ ldFile.rate < ldDevrate
    /\ \E i \in DOMAIN ldHrtf.delays : \E c \in 1..2 :
          ldHrtf.delays[i][c] = MAX_HRIR_DELAY * HRIR_DELAY_FRACONE

\* C10 as stated: in every loaded store the field distances are strictly
\* increasing with the field index (field[0] is the nearest field).
DistancesIncreasing ==
    ldPc = "loaded" =>
        \A f \in 1..(ldHrtf.fdCount - 1) :
            ldHrtf.field[f - 1].distance < ldHrtf.field[f].distance

\* C10, corrected: in every loaded store the field distances are strictly
\* decreasing with the field index (field[0] is the farthest field); a V2
\* file lists its fields nearest first and the loader reverses them.
DistancesDecreasing ==
    ldPc = "loaded" =>
        /\ \A f \in 1..(ldHrtf.fdCount - 1) :
              ldHrtf.field[f - 1].distance > ldHrtf.field[f].distance
        /\ ldFile.magic = "MinPHR02" =>
              \A f \in 0..(ldHrtf.fdCount - 1) :
                  ldHrtf.field[f].distance = ldFile.distance[ldHrtf.fdCount - 1 - f]

\* A store of more than one field has been loaded.
MultiFieldWitness ==
    ldPc = "loaded" /\ ldHrtf.fdCount > 1

\* Whether the file holds left-ear responses only (every V0 and V1 file, and
\* a V2 file of channel type CHANTYPE_LEFTONLY).
LeftOnly(file) ==
    file.magic \in {"MinPHR00", "MinPHR01"}
      \/ (file.magic = "MinPHR02" /\ file.channelType = CHANTYPE_LEFTONLY)

\* C11: in the store returned for a left-only data set, for every elevation
\* with offset o and azimuth count n and every j in [0, n), the right
\* channel coefficients and the right delay of IR o + ((n - j) mod n) equal
\* the left channel coefficients and the left delay of IR o + j; this is so
\* in the final store, after the field reordering and the delay rescaling.
MirroredRightEar ==
    (ldPc = "loaded" /\ LeftOnly(ldFile)) =>
        \A e \in DOMAIN ldHrtf.elev :
            LET o == ldHrtf.elev[e].irOffset
                n == ldHrtf.elev[e].azCount
            IN  \A j \in 0..(n - 1) :
                    LET l == o + j
                        r == o + ((n - j) % n)
                    IN  /\ ldHrtf.delays[r][2] = ldHrtf.delays[l][1]
                        /\ DOMAIN ldHrtf.coeffs[r] = DOMAIN ldHrtf.coeffs[l]
                        /\ \A k \in DOMAIN ldHrtf.coeffs[l] :
                              ldHrtf.coeffs[r][k][2] = ldHrtf.coeffs[l][k][1]

\* A left-only V2 file of several fields was loaded at another rate, and an
\* elevation of three or more azimuths has two IRs that mirror each other.
MirroredReorderedWitness ==
    /\ ldPc = "loaded"
    /\ ldFile.magic = "MinPHR02" /\ ldFile.channelType = CHANTYPE_LEFTONLY
    /\ ldHrtf.fdCount > 1
    /\ ldFile.rate # ldDevrate
    /\ \E e \in DOMAIN ldHrtf.elev :
          /\ ldHrtf.elev[e].azCount >= 3
          /\ ldHrtf.delays[ldHrtf.elev[e].irOffset + 1][1]
                # ldHrtf.delays[ldHrtf.elev[e].irOffset + 2][1]

\* C12 as stated: if the file's sample rate equals the device rate, the
\* conditioner leaves the store as the loader built it: irSize and every
\* delay byte are the same before and after the conditioner.
SameRateUntouched ==
    (ldPc = "loaded" /\ ldFile.rate = ldDevrate) =>
        /\ ldHrtf.irSize = LoadStream(ldFile).irSize
        /\ ldHrtf.delays = LoadStream(ldFile).delays

\* C12, corrected: if the file's sample rate equals the device rate, every
\* delay, every coefficient and the sample rate are as the loader built
\* them, and so is irSize unless the hrtf-size option is set to a value in
\* (0, irSize): then irSize is the larger of that value and MIN_IR_SIZE,
\* rounded down to a multiple of MOD_IR_SIZE.
SameRateOnlyHrtfSize ==
    (ldPc = "loaded" /\ ldFile.rate = ldDevrate) =>
        LET built == LoadStream(ldFile)
            shortens == /\ ldHrtfSize # <<>>
                        /\ ldHrtfSize[1] > 0
                        /\ ldHrtfSize[1] < built.irSize
            size == IF ldHrtfSize[1] > MIN_IR_SIZE THEN ldHrtfSize[1] ELSE MIN_IR_SIZE
        IN  /\ ldHrtf.delays = built.delays
            /\ ldHrtf.coeffs = built.coeffs
            /\ ldHrtf.sampleRate = built.sampleRate
            /\ ~shortens => ldHrtf.irSize = built.irSize
            /\ shortens => ldHrtf.irSize = size - (size % MOD_IR_SIZE)

\* A file loaded at its own rate with an hrtf-size option that shortens it,
\* and with delays that are not all zero.
SameRateShortenedWitness ==
    /\ ldPc = "loaded"
    /\ ldFile.rate = ldDevrate
    /\ ldHrtfSize = <<11>>
    /\ ldFile.irSize = 16 /\ ldHrtf.irSize = 10
    /\ \E i \in DOMAIN ldHrtf.delays : ldHrtf.delays[i][1] > 0

(***************************************************************************)
(* C13.  The bounds a file has to keep, written from the format tables and *)
(* not from the loaders.                                                   *)
(***************************************************************************)
IrSizeInBounds(file) ==
    file.irSize >= 8 /\ file.irSize <= 512 /\ file.irSize % 2 = 0

EvCountInBounds(file, f) == file.evCount[f] >= 5 /\ file.evCount[f] <= 181

FileDelaysInBounds(file, n, chans) ==
    \A i \in 0..(n - 1) : \A c \in 1..chans : file.delays[i][c] <= MAX_HRIR_DELAY

BoundsHold00(file) ==
    /\ IrSizeInBounds(file)
    /\ EvCountInBounds(file, 0)
    /\ \A i \in 1..(file.evCount[0] - 1) : file.evOffset[i - 1] < file.evOffset[i]
    /\ file.evOffset[file.evCount[0] - 1] < file.irCount
    /\ \A i \in 1..(file.evCount[0] - 1) :
          file.evOffset[i] - file.evOffset[i - 1] \in 1..255
    /\ file.irCount - file.evOffset[file.evCount[0] - 1] \in 1..255
    /\ FileDelaysInBounds(file, file.irCount, 1)

BoundsHold01(file) ==
    /\ IrSizeInBounds(file)
    /\ EvCountInBounds(file, 0)
    /\ \A e \in 0..(file.evCount[0] - 1) : file.azCount[e] \in 1..255
    /\ FileDelaysInBounds(file, SumTo(file.azCount, file.evCount[0]), 1)

BoundsHold02(file) ==
    /\ file.sampleType <= 1
    /\ file.channelType <= 1
    /\ IrSizeInBounds(file)
    /\ file.fdCount \in 1..16
    /\ \A f \in 0..(file.fdCount - 1) : file.distance[f] \in 50..2500
    /\ \A f \in 1..(file.fdCount - 1) : file.distance[f - 1] < file.distance[f]
    /\ \A f \in 0..(file.fdCount - 1) : EvCountInBounds(file, f)
    /\ \A e \in 0..(SumTo(file.evCount, file.fdCount) - 1) : file.azCount[e] \in 1..255
    /\ FileDelaysInBounds(file, SumTo(file.azCount, SumTo(file.evCount, file.fdCount)),
                          IF file.channelType = 1 THEN 2 ELSE 1)

BoundsHold(file) ==
    IF file.magic = "MinPHR00" THEN BoundsHold00(file)
    ELSE IF file.magic = "MinPHR01" THEN BoundsHold01(file)
    ELSE BoundsHold02(file)

HasFormat(file) ==
    file # NULL /\ file.magic \in {"MinPHR00", "MinPHR01", "MinPHR02"}

\* C13: a format loader returns a store only if every read succeeded and
\* every bound of the format holds; a short read or a violated bound gives
\* no store, and a store that is returned holds every IR of the file (for a
\* V0 file the irCount of its header, else the sum of its azimuth counts).
StoreOnlyFromValidFile ==
    HasFormat(ldFile) =>
        /\ ldPc = "loaded" => (ldFile.trunc = "none" /\ BoundsHold(ldFile))
        /\ (ldPc = "failed" /\ ldFile.trunc = "none") => ~BoundsHold(ldFile)
        /\ ldPc = "failed" => ldHrtf = NULL
        /\ ldPc = "loaded" =>
              LET built == LoadStream(ldFile)
                  irs == IF ldFile.magic = "MinPHR00" THEN ldFile.irCount
                         ELSE SumTo([e \in DOMAIN built.elev |-> built.elev[e].azCount],
                                    Cardinality(DOMAIN built.elev))
              IN  /\ DOMAIN built.coeffs = 0..(irs - 1)
                  /\ DOMAIN built.delays = 0..(irs - 1)
                  /\ \A i \in 0..(irs - 1) :
                        DOMAIN built.coeffs[i] = 0..(built.irSize - 1)

\* A V2 file that was read to its end is refused for a bound it violates.
RefusedForBoundWitness ==
    /\ ldPc = "failed"
    /\ HasFormat(ldFile) /\ ldFile.magic = "MinPHR02"
    /\ ldFile.trunc = "none"
    /\ ldHrtf = NULL

(***************************************************************************)
(* SpecEnum: EnumerateHrtf called again and again by one thread, each call *)
(* under a configuration drawn from the sets below.  A call is one step:   *)
(* it holds EnumeratedHrtfLock from its first line to its return.          *)
(***************************************************************************)
MaxEnumCalls == 3

\* Values of the hrtf-paths option: absent, or a list of directories.
EnumPathOpts ==
    { <<>>,
      << <<>> >>,
      << <<" ", ",", " ">> >>,
      << <<"a">> >>,
      << <<"a", ",">> >>,
      << <<" ", "a", " ">> >>,
      << <<"a", ",", " ">> >>,
      << <<"b", ",", "c">> >>,
      << <<"e", ",", "b", ",", "c", ",">> >>,
      << <<"a", ",", "e", ",", "c">> >>,
      << <<"c", ",", "a", ",", "b", ",", "e", ",">> >> }

\* Values of the default-hrtf option.
EnumDefOpts == { <<>>, << <<"x">> >>, << <<"y">> >>, << <<"z">> >>, << <<"x", " ", "#", "2">> >>, << <<"q">> >> }

EnumInit == CacheInit /\ LoadIdle /\ EnumIdle /\ QueryIdle

EnumCall ==
    /\ enCalls < MaxEnumCalls
    /\ \E pathopt \in EnumPathOpts, defhrtfopt \in EnumDefOpts :
          \E entries \in {EnumeratedAfter(EnumeratedHrtfs, pathopt)} :
             \E list \in {EnumeratedList(entries, defhrtfopt)} :
                /\ EnumeratedHrtfs' = entries
                /\ enList' = list
                /\ enPathOpt' = pathopt
                /\ enDefOpt' = defhrtfopt
                /\ enFirst' =
                      IF enCalls = 0
                      THEN << [pathopt |-> pathopt, defhrtfopt |-> defhrtfopt,
                               list |-> list, changed |-> FALSE] >>
                      ELSE << [enFirst[1] EXCEPT !.changed =
                                 @ \/ pathopt # enFirst[1].pathopt
                                   \/ defhrtfopt # enFirst[1].defhrtfopt] >>
    /\ enCalls' = enCalls + 1
    /\ UNCHANGED <<EnumeratedHrtfLock, LoadedHrtfLock, LoadedHrtfs, heap, freed, origin,
                   pc, local, held, ret, calls, hist, ldVars, qVars>>

EnumNext == EnumCall

SpecEnum == EnumInit /\ [][EnumNext]_vars

(***************************************************************************)
(* Properties of the enumeration (SpecEnum).                               *)
(***************************************************************************)
\* The defaults are in EnumeratedHrtfs: the file of the "openal/hrtf" search
\* and the built-in resource.
HasDefaults ==
    /\ \E i \in 1..Len(EnumeratedHrtfs) :
          EnumeratedHrtfs[i].mFilename = <<"d", "/", "x">> \o MHR
    /\ \E i \in 1..Len(EnumeratedHrtfs) :
          EnumeratedHrtfs[i].mFilename = <<"!", "1", "_">> \o BuiltInName

NoDefaults ==
    /\ \A i \in 1..Len(EnumeratedHrtfs) :
          EnumeratedHrtfs[i].mFilename # <<"d", "/", "x">> \o MHR
    /\ \A i \in 1..Len(EnumeratedHrtfs) :
          EnumeratedHrtfs[i].mFilename # <<"!", "1", "_">> \o BuiltInName

\* The list has an entry at all: a character that is no space and no comma.
HasEntry(str) == \E i \in 1..Len(str) : str[i] \notin {" ", ","}

\* The list ends with a bare entry: an entry with no comma after it.
BareFinalEntry(str) ==
    \E i \in 1..Len(str) :
        str[i] \notin {" ", ","} /\ \A k \in i..Len(str) : str[k] # ","

\* C14 as stated: the defaults are included when hrtf-paths is absent, when
\* the list has no entry, or when it ends with a bare final entry; a comma
\* after the last entry turns them off.
DefaultsUnlessTrailingComma ==
    enCalls > 0 =>
        IF enPathOpt = <<>> \/ ~HasEntry(enPathOpt[1]) \/ BareFinalEntry(enPathOpt[1])
        THEN HasDefaults ELSE NoDefaults

\* C14, corrected: the defaults are included when hrtf-paths is absent, when
\* the list has no entry, or when a comma follows its last entry; a bare
\* final entry (no comma after it) turns them off.
DefaultsUnlessBareFinalEntry ==
    enCalls > 0 =>
        IF enPathOpt # <<>> /\ BareFinalEntry(enPathOpt[1])
        THEN NoDefaults ELSE HasDefaults

\* A list whose last entry is followed by a comma was enumerated, and the
\* defaults are in the enumeration after the entries of the list.
TrailingCommaWitness ==
    /\ enCalls > 0
    /\ enPathOpt = << <<"a", ",">> >>
    /\ Len(EnumeratedHrtfs) = 5
    /\ EnumeratedHrtfs[1].mFilename = <<"a", "/", "x">> \o MHR
    /\ HasDefaults

\* The part of a file name after its last "/" and before its last "." (a "."
\* that is not behind the "/" does not count).
BaseOf(filename) ==
    LET slashes == { i \in 1..Len(filename) : filename[i] = "/" }
        first == IF slashes = {} THEN 1
                 ELSE (CHOOSE i \in slashes : \A k \in slashes : k <= i) + 1
        dots == { i \in (first + 1)..Len(filename) : filename[i] = "." }
        last == IF dots = {} THEN Len(filename)
                ELSE (CHOOSE i \in dots : \A k \in dots : k <= i) - 1
    IN  SubSeq(filename, first, last)

\* The name an entry is listed under before any suffix is added.
EntryBase(entry) ==
    IF entry.mFilename = <<"!", "1", "_">> \o BuiltInName THEN BuiltInName
    ELSE BaseOf(entry.mFilename)

Suffixed(base, n) == base \o <<" ", "#">> \o to_string(n)

\* C15: after any EnumerateHrtf call the entries of EnumeratedHrtfs have
\* pairwise distinct file names and pairwise distinct display names; an
\* entry is listed under its base name if no earlier entry has that name,
\* and else under the first free name "base #N", N counted up from 2.
EntriesUnique ==
    enCalls > 0 =>
        /\ \A i, j \in 1..Len(EnumeratedHrtfs) :
              i # j => /\ EnumeratedHrtfs[i].mFilename # EnumeratedHrtfs[j].mFilename
                       /\ EnumeratedHrtfs[i].mDispName # EnumeratedHrtfs[j].mDispName
        /\ \A i \in 1..Len(EnumeratedHrtfs) :
              LET base == EntryBase(EnumeratedHrtfs[i])
                  name == EnumeratedHrtfs[i].mDispName
                  earlier == { EnumeratedHrtfs[k].mDispName : k \in 1..(i - 1) }
              IN  \/ name = base /\ base \notin earlier
                  \/ \E n \in 2..(i + 1) :
                        /\ name = Suffixed(base, n)
                        /\ base \in earlier
                        /\ \A m \in 2..(n - 1) : Suffixed(base, m) \in earlier

\* The locator reported b/x.mhr twice and four more files of base name "x",
\* one of them after a file whose own base name is "x #2".
ClashingNamesWitness ==
    /\ enCalls > 0
    /\ [i \in 1..Len(EnumeratedHrtfs) |-> EnumeratedHrtfs[i].mFilename]
          = << <<"e", "/", "x", " ", "#", "2">> \o MHR, <<"b", "/", "x">> \o MHR,
               <<"c", "/", "x">> \o MHR, <<"a", "/", "x">> \o MHR,
               <<"d", "/", "x">> \o MHR, <<"!", "1", "_">> \o BuiltInName >>
    /\ [i \in 1..Len(EnumeratedHrtfs) |-> EnumeratedHrtfs[i].mDispName]
          = << <<"x", " ", "#", "2">>, <<"x">>, <<"x", " ", "#", "3">>,
               <<"x", " ", "#", "4">>, <<"x", " ", "#", "5">>, BuiltInName >>

\* The configuration of the last call is that of the first call.
SameAsFirst ==
    enFirst # <<>> /\ enPathOpt = enFirst[1].pathopt /\ enDefOpt = enFirst[1].defhrtfopt

\* C16: a call of EnumerateHrtf under the configuration (and locator
\* results) of an earlier call returns the display names of that call: under
\* the configuration of the first call, whose EnumeratedHrtfs started empty,
\* a later call returns the first call's list whatever was enumerated in
\* between, and a call that repeats the previous call's configuration
\* returns the previous call's list.
RepeatedEnumerationSame ==
    /\ [](SameAsFirst => enList = enFirst[1].list)
    /\ [][(enCalls' = enCalls + 1 /\ enPathOpt' = enPathOpt /\ enDefOpt' = enDefOpt
             /\ enCalls > 0) => enList' = enList]_vars

\* The first configuration was enumerated again after another one had been
\* enumerated in between, and its list has a suffixed name.
EnumeratedAgainWitness ==
    /\ enCalls = 3
    /\ SameAsFirst
    /\ enFirst[1].changed
    /\ enList = enFirst[1].list
    /\ \E i \in 1..Len(enList) : enList[i] = <<"x", " ", "#", "3">>

\* The display names of EnumeratedHrtfs in enumeration order.
EnumeratedNames == [i \in 1..Len(EnumeratedHrtfs) |-> EnumeratedHrtfs[i].mDispName]

\* C17: if default-hrtf names the display name at position k of the
\* enumeration, the returned list has that name first and all other names
\* after it in their enumeration order; if no entry has the name, the
\* returned list is the enumeration order (and the call still returns).
DefaultHrtfFirst ==
    enCalls > 0 =>
        LET names == EnumeratedNames
            ks == { k \in 1..Len(names) : enDefOpt # <<>> /\ names[k] = enDefOpt[1] }
        IN  IF ks = {} THEN enList = names
            ELSE \E k \in ks :
                    /\ Len(enList) = Len(names)
                    /\ enList[1] = names[k]
                    /\ \A i \in 1..(k - 1) : enList[i + 1] = names[i]
                    /\ \A i \in (k + 1)..Len(names) : enList[i] = names[i]

\* The default name was third or later in the enumeration and is first in
\* the returned list.
DefaultMovedWitness ==
    /\ enCalls > 0
    /\ enDefOpt # <<>>
    /\ Len(enList) >= 4
    /\ \E k \in 3..(Len(enList) - 1) : EnumeratedNames[k] = enDefOpt[1]
    /\ enList[1] = enDefOpt[1]

\* The default name is not in the enumeration; the list is returned as
\* enumerated.
DefaultMissingWitness ==
    /\ enCalls > 0
    /\ enDefOpt = << <<"q">> >>
    /\ Len(enList) >= 3
    /\ enList = EnumeratedNames

(***************************************************************************)
(* GetHrtfCoeffs.  The floats of the query are held exactly:               *)
(*   an angle is a whole number of units of pi / AngleDen;                 *)
(*   spread is a whole number of units of Tau / SpreadDen;                 *)
(*   an elevation blend is a numerator over AngleDen, an azimuth blend a   *)
(*   numerator over 2 * AngleDen, dirfact a numerator over SpreadDen, a    *)
(*   blending weight a numerator over WeightDen;                           *)
(*   an output coefficient is [pass, sum], the float                       *)
(*   PassthruCoeff * pass / SpreadDen + sum / WeightDen in the units of    *)
(*   the store's coefficients.                                             *)
(* A distance is held in millimetres, as in the store.                     *)
(***************************************************************************)
AngleDen == 6
SpreadDen == 2
WeightDen == AngleDen * (2 * AngleDen) * SpreadDen

\* float2uint on a value that is not negative, num / den.
float2uint(num, den) == num \div den

\* fastf2u is not among the sources; it is taken to round down, as the
\* format description has it.
fastf2u(num, den) == num \div den

\* Lines 188-195.  ev = (pi/2 + ev) * (evcount-1) / pi.
CalcEvIndex(evcount, ev) ==
    LET num == (AngleDen \div 2 + ev) * (evcount - 1)
        idx == float2uint(num, AngleDen)
    IN  [idx |-> minu(idx, evcount - 1), blend |-> num - idx * AngleDen]

\* CalcAzIndex without the wrap of the index to the azimuth count.
CalcAzIndexNoWrap(azcount, az) ==
    [idx |-> ((2 * AngleDen + az) * azcount) \div (2 * AngleDen),
     blend |-> ((2 * AngleDen + az) * azcount) % (2 * AngleDen)]

\* Lines 200-207.  az = (Tau + az) * azcount / Tau.
CalcAzIndex(azcount, az) ==
    LET num == (2 * AngleDen + az) * azcount
        idx == float2uint(num, 2 * AngleDen)
    IN  [idx |-> idx % azcount, blend |-> num - idx * (2 * AngleDen)]

RECURSIVE FieldWalk(_, _, _, _)
\* Lines 220-228: the walk over the fields, entered with field 0 and ebase 0.
FieldWalk(Hrtf, distance, field, ebase) ==
    IF distance < Hrtf.field[field].distance /\ field # Hrtf.fdCount - 1
    THEN FieldWalk(Hrtf, distance, field + 1, ebase + Hrtf.field[field].evCount)
    ELSE [field |-> field, ebase |-> ebase]

\* Lines 230-246: the four HRIR indices idx[0..3] (here 1..4) and the blends.
Corners(Hrtf, ebase, elev0, elev1_idx, azimuth) ==
    LET ev0 == Hrtf.elev[ebase + elev0.idx]
        ev1 == Hrtf.elev[ebase + elev1_idx]
        az0 == CalcAzIndex(ev0.azCount, azimuth)
        az1 == CalcAzIndex(ev1.azCount, azimuth)
    IN  [ idx |-> << ev0.irOffset + az0.idx,
                     ev0.irOffset + ((az0.idx + 1) % ev0.azCount),
                     ev1.irOffset + az1.idx,
                     ev1.irOffset + ((az1.idx + 1) % ev1.azCount) >>,
          elev0 |-> elev0, az0 |-> az0, az1 |-> az1 ]

\* Lines 251-256: blend[0..3] (here 1..4), numerators over WeightDen.
BlendWeights(elev0, az0, az1, dirfact) ==
    << (AngleDen - elev0.blend) * (2 * AngleDen - az0.blend) * dirfact,
       (AngleDen - elev0.blend) * az0.blend * dirfact,
       elev0.blend * (2 * AngleDen - az1.blend) * dirfact,
       elev0.blend * az1.blend * dirfact >>

\* Lines 258-263: the blended delays, <<left, right>>.
BlendDelays(Hrtf, idx, blend) ==
    << fastf2u(Hrtf.delays[idx[1]][1] * blend[1] + Hrtf.delays[idx[2]][1] * blend[2]
                 + Hrtf.delays[idx[3]][1] * blend[3] + Hrtf.delays[idx[4]][1] * blend[4],
               WeightDen * HRIR_DELAY_FRACONE),
       fastf2u(Hrtf.delays[idx[1]][2] * blend[1] + Hrtf.delays[idx[2]][2] * blend[2]
                 + Hrtf.delays[idx[3]][2] * blend[3] + Hrtf.delays[idx[4]][2] * blend[2],
               WeightDen * HRIR_DELAY_FRACONE) >>

\* Lines 276-277: the lambda of the std::transform.
blend_coeffs(src, mult, coeff) == [coeff EXCEPT !.sum = src * mult + @]

\* coeffout[0], coeffout[1] = PassthruCoeff * (1 - dirfact), the rest 0.0f.
CoeffInit(j, dirfact) == [pass |-> IF j = 0 THEN SpreadDen - dirfact ELSE 0, sum |-> 0]

RECURSIVE BlendTap(_, _, _, _, _, _, _)
\* Lines 273-280: channel ch of tap j after the transforms of HRIRs 1..c.
BlendTap(Hrtf, idx, blend, j, ch, dirfact, c) ==
    IF c = 0 THEN CoeffInit(j, dirfact)
    ELSE LET coeff == BlendTap(Hrtf, idx, blend, j, ch, dirfact, c - 1)
         IN  IF j < Hrtf.irSize
             THEN blend_coeffs(HrirTap(Hrtf.coeffs[idx[c]], j)[ch], blend[c], coeff)
             ELSE coeff

\* Lines 265-280: the HRIR_LENGTH output coefficients.
BlendCoeffs(Hrtf, idx, blend, dirfact) ==
    Array([j \in 0..(HRIR_LENGTH - 1) |->
             << BlendTap(Hrtf, idx, blend, j, 1, dirfact, 4),
                BlendTap(Hrtf, idx, blend, j, 2, dirfact, 4) >>], HRIR_LENGTH)

\* Lines 250-280, given the field, the indices and the blends.
GetHrtfBlend(Hrtf, walk, corners, blend, dirfact) ==
    [ field  |-> walk.field,
      ebase  |-> walk.ebase,
      idx    |-> corners.idx,
      blend  |-> blend,
      delays |-> BlendDelays(Hrtf, corners.idx, blend),
      coeffs |-> BlendCoeffs(Hrtf, corners.idx, blend, dirfact) ]

\* Lines 230-246, given the field.
GetHrtfCorners(Hrtf, walk, elev0, azimuth, dirfact) ==
    \* elev1_idx = minu(elev0.idx+1, field->evCount-1)
    LET corners == Corners(Hrtf, walk.ebase, elev0,
                           minu(elev0.idx + 1, Hrtf.field[walk.field].evCount - 1), azimuth)
    IN  GetHrtfBlend(Hrtf, walk, corners,
                     BlendWeights(corners.elev0, corners.az0, corners.az1, dirfact), dirfact)

GetHrtfField(Hrtf, walk, elevation, azimuth, dirfact) ==
    GetHrtfCorners(Hrtf, walk, CalcEvIndex(Hrtf.field[walk.field].evCount, elevation),
                   azimuth, dirfact)

\* Lines 215-281.  dirfact = 1 - spread / Tau.
GetHrtfCoeffs(Hrtf, elevation, azimuth, distance, spread) ==
    GetHrtfField(Hrtf, FieldWalk(Hrtf, distance, 0, 0), elevation, azimuth,
                 SpreadDen - spread)

(***************************************************************************)
(* SpecQuery: one GetHrtfCoeffs call on a store that GetLoadedHrtf built.  *)
(***************************************************************************)
\* The loads that built the stores: file, device rate and hrtf-size option.
QueryLoads ==
    { [file |-> [V2File(n) EXCEPT !.channelType = CHANTYPE_LEFTRIGHT, !.irSize = 8],
       devrate |-> 44100, hrtfsizeopt |-> <<>>] : n \in 1..MaxFdCount }
    \cup { [file |-> BaseFile, devrate |-> 44100, hrtfsizeopt |-> <<11>>],
           [file |-> [V2File(MaxFdCount) EXCEPT !.sampleType = SAMPLETYPE_S24, !.irSize = 8],
            devrate |-> 48000, hrtfsizeopt |-> <<>>] }

QueryStores == { LoadAndCondition(l.file, l.devrate, l.hrtfsizeopt) : l \in QueryLoads }

\* Elevations in [-pi/2, pi/2] and azimuths in [-pi, pi], in units of
\* pi / AngleDen; distances in millimetres; spreads in units of Tau / SpreadDen.
QueryElevations == {-(AngleDen \div 2), -1, 0, 1, 2, AngleDen \div 2}
QueryAzimuths == {-AngleDen, -5, 0, 2, 5, AngleDen}
QueryDistances == {0, 100, 200, 300, 400, 700}
QuerySpreads == 0..SpreadDen

QueryInit ==
    /\ qHrtf \in QueryStores
    /\ qArgs = <<>>
    /\ qOut = <<>>
    /\ qPc = "call"
    /\ qPoints = <<>>
    /\ qState = <<>>
    /\ CacheInit /\ LoadIdle /\ EnumIdle

QueryCall ==
    /\ qPc = "call"
    /\ \E elevation \in QueryElevations, azimuth \in QueryAzimuths,
          distance \in QueryDistances, spread \in QuerySpreads :
          /\ qArgs' = [elevation |-> elevation, azimuth |-> azimuth,
                       distance |-> distance, spread |-> spread]
          /\ qOut' = GetHrtfCoeffs(qHrtf, elevation, azimuth, distance, spread)
    /\ qPc' = "done"
    /\ UNCHANGED <<qHrtf, qPoints, qState, ldVars, enVars, cacheVars>>

(***************************************************************************)
(* BuildBFormatHrtf.  The blending weights of calc_res are numerators over *)
(* BWeightDen; a blended coefficient is a numerator over BWeightDen in the *)
(* units of the store's coefficients.  The ALuint delays keep their 32     *)
(* bits: a difference is held as its representative in (-2^31, 2^31).      *)
(***************************************************************************)
MaxPoints == 2
NumChans == 2
DualBand == TRUE
base_delay == 16

BWeightDen == AngleDen * (2 * AngleDen)

\* BandSplitterR is not among the sources.  It is taken as the ideal split
\* of a response that lies below the crossover: applyAllpass leaves the
\* signal as it is, the low band is the signal and the high band is silent.
applyAllpass(x) == x
BandSplitHF(x) == 0 * x
BandSplitLF(x) == x

\* AmbiMatrix[c][i] and AmbiOrderHFGain[order], the arguments of the call.
AmbiMatrix(c, i) == IF i = 0 THEN 1 ELSE IF c % 2 = 0 THEN 1 ELSE -1
AmbiOrderHFGain(order) == IF order = 0 THEN 2 ELSE 1

\* Line 300: OrderFromChan.
OrderFromChan(i) == IF i = 0 THEN 0 ELSE IF i < 4 THEN 1 ELSE IF i < 9 THEN 2 ELSE 3

\* Lines 334-358: the blended delays and coefficients of one point.
calc_blend(Hrtf, idx, blend) ==
    [ idx    |-> idx,
      blend  |-> blend,
      ldelay |-> fastf2u(Hrtf.delays[idx[1]][1] * blend[1] + Hrtf.delays[idx[2]][1] * blend[2]
                           + Hrtf.delays[idx[3]][1] * blend[3]
                           + Hrtf.delays[idx[4]][1] * blend[4], BWeightDen),
      rdelay |-> fastf2u(Hrtf.delays[idx[1]][2] * blend[1] + Hrtf.delays[idx[2]][2] * blend[2]
                           + Hrtf.delays[idx[3]][2] * blend[3]
                           + Hrtf.delays[idx[4]][2] * blend[4], BWeightDen),
      hrir   |-> Array([j \in 0..(HRIR_LENGTH - 1) |->
                          [ch \in 1..2 |->
                              HrirTap(Hrtf.coeffs[idx[1]], j)[ch] * blend[1]
                                + HrirTap(Hrtf.coeffs[idx[2]], j)[ch] * blend[2]
                                + HrirTap(Hrtf.coeffs[idx[3]], j)[ch] * blend[3]
                                + HrirTap(Hrtf.coeffs[idx[4]], j)[ch] * blend[4]]],
                       HRIR_LENGTH) ]

calc_corners(Hrtf, corners) ==
    calc_blend(Hrtf, corners.idx,
               BlendWeights(corners.elev0, corners.az0, corners.az1, 1))

\* Lines 320-321: elev0.idx and elev1_idx index Hrtf->elev from its start.
calc_ebase(Hrtf) == 0

\* Lines 319-332, given elev0: the elevations are those of Hrtf->field[0].
calc_elev(Hrtf, elev0, pt) ==
    calc_corners(Hrtf, Corners(Hrtf, calc_ebase(Hrtf), elev0,
                               minu(elev0.idx + 1, Hrtf.field[0].evCount - 1), pt.Azim))

\* Lines 315-364: the lambda calc_res, but for min_delay and max_delay.
calc_res(Hrtf, pt) ==
    calc_elev(Hrtf, CalcEvIndex(Hrtf.field[0].evCount, pt.Elev), pt)

RECURSIVE MinDelay(_, _)
\* Lines 311 and 361: min_delay after the first n points.
MinDelay(impres, n) ==
    IF n = 0 THEN HRTF_HISTORY_LENGTH * HRIR_DELAY_FRACONE
    ELSE minu(MinDelay(impres, n - 1), minu(impres[n].ldelay, impres[n].rdelay))

RECURSIVE MaxDelay(_, _)
\* Lines 312 and 362: max_delay after the first n points.
MaxDelay(impres, n) ==
    IF n = 0 THEN 0
    ELSE maxu(MaxDelay(impres, n - 1), maxu(impres[n].ldelay, impres[n].rdelay))

\* Lines 366-367: (d + HRIR_DELAY_FRACHALF) >> HRIR_DELAY_FRACBITS on an
\* ALuint; a negative d stands for d + 2^32.
hrir_delay_round(d) ==
    IF d + HRIR_DELAY_FRACHALF >= 0 THEN (d + HRIR_DELAY_FRACHALF) \div HRIR_DELAY_FRACONE
    ELSE 1073741824 + ((d + HRIR_DELAY_FRACHALF) \div HRIR_DELAY_FRACONE)

\* Lines 426-433 and 446-453: what point c adds to tap lidx of channel i.
\* tmpflt holds the HRIR from sample HRIR_LENGTH*3 on and nothing before it.
DelayedTap(hrir, ch, delay, lidx, i) ==
    IF lidx >= delay
    THEN BandSplitHF(applyAllpass(hrir[lidx - delay][ch])) * AmbiOrderHFGain(OrderFromChan(i))
           + BandSplitLF(applyAllpass(hrir[lidx - delay][ch]))
    ELSE 0

RECURSIVE AccumTap(_, _, _, _, _, _)
\* tmpres[i][lidx][ch] after the first c points.
AccumTap(impres, min_delay, i, lidx, ch, c) ==
    IF c = 0 THEN 0
    ELSE AccumTap(impres, min_delay, i, lidx, ch, c - 1)
           + DelayedTap(impres[c].hrir, ch,
                        hrir_delay_round((IF ch = 1 THEN impres[c].ldelay
                                          ELSE impres[c].rdelay) - min_delay) + base_delay,
                        lidx, i) * AmbiMatrix(c - 1, i)

\* Lines 478-479: round up to the next IR size multiple.
RoundUpIrSize(max_length) ==
    (max_length + MOD_IR_SIZE - 1) - ((max_length + MOD_IR_SIZE - 1) % MOD_IR_SIZE)

\* Lines 469-484: state->IrSize.
BFormatIrSize(Hrtf, min_delay, max_delay) ==
    RoundUpIrSize(minu(hrir_delay_round(max_delay - min_delay)
                         + minu(Hrtf.irSize + base_delay * 2, HRIR_LENGTH),
                       HRIR_LENGTH))

\* Lines 366-484, given the responses of the points.
BuildFromResponses(Hrtf, impres, n, min_delay, max_delay) ==
    [ points    |-> [c \in 1..n |-> [idx |-> impres[c].idx, blend |-> impres[c].blend,
                                     ldelay |-> impres[c].ldelay,
                                     rdelay |-> impres[c].rdelay]],
      min_delay |-> min_delay,
      max_delay |-> max_delay,
      Coeffs    |-> [i \in 0..(NumChans - 1) |->
                       Array([lidx \in 0..(HRIR_LENGTH - 1) |->
                                [ch \in 1..2 |->
                                    AccumTap(impres, min_delay, i, lidx, ch, n)]],
                             HRIR_LENGTH)],
      IrSize    |-> BFormatIrSize(Hrtf, min_delay, max_delay) ]

\* Lines 289-485.
BuildBFormatHrtf(Hrtf, impres, n) ==
    BuildFromResponses(Hrtf, impres, n, MinDelay(impres, n), MaxDelay(impres, n))

\* The sample points: elevation and azimuth in units of pi / AngleDen.
QueryPoints ==
    { [Elev |-> -(AngleDen \div 2), Azim |-> 0], [Elev |-> AngleDen \div 2, Azim |-> 0],
      [Elev |-> 0, Azim |-> -AngleDen], [Elev |-> 0, Azim |-> 2],
      [Elev |-> 1, Azim |-> 5], [Elev |-> -1, Azim |-> -5] }

AmbiPointSeqs ==
    UNION { [1..n -> QueryPoints] : n \in 0..MaxPoints }

BuildCall ==
    /\ qPc = "call"
    /\ \E AmbiPoints \in AmbiPointSeqs :
          \E impres \in {[c \in 1..Len(AmbiPoints) |-> calc_res(qHrtf, AmbiPoints[c])]} :
             /\ qPoints' = AmbiPoints
             /\ qState' = BuildBFormatHrtf(qHrtf, impres, Len(AmbiPoints))
    /\ qPc' = "built"
    /\ UNCHANGED <<qHrtf, qArgs, qOut, ldVars, enVars, cacheVars>>

QueryNext == QueryCall \/ BuildCall

(***************************************************************************)
(* The fields of a store.                                                  *)
(***************************************************************************)
RECURSIVE FieldEbase(_, _)
\* The index in Hrtf.elev of the first elevation of field f.
FieldEbase(Hrtf, f) ==
    IF f = 0 THEN 0 ELSE FieldEbase(Hrtf, f - 1) + Hrtf.field[f - 1].evCount

\* The indices of the IRs of field f.
FieldIrs(Hrtf, f) ==
    UNION { { Hrtf.elev[e].irOffset + a : a \in 0..(Hrtf.elev[e].azCount - 1) } :
            e \in FieldEbase(Hrtf, f)..(FieldEbase(Hrtf, f) + Hrtf.field[f].evCount - 1) }

\* The field with the smallest distance and the one with the largest.
NearestField(Hrtf) ==
    CHOOSE f \in 0..(Hrtf.fdCount - 1) :
        \A g \in 0..(Hrtf.fdCount - 1) : Hrtf.field[f].distance <= Hrtf.field[g].distance

FarthestField(Hrtf) ==
    CHOOSE f \in 0..(Hrtf.fdCount - 1) :
        \A g \in 0..(Hrtf.fdCount - 1) : Hrtf.field[f].distance >= Hrtf.field[g].distance

\* The IRs that BuildBFormatHrtf blended for its sample points.
BlendedIrs ==
    { qState.points[c].idx[k] : c \in 1..Len(qPoints), k \in 1..4 }

\* C21 as the specification states it: BuildBFormatHrtf takes the impulse
\* responses and delays of every sample point from the field of the store
\* with the smallest distance.
PointsFromNearestField ==
    qPc = "built" => BlendedIrs \subseteq FieldIrs(qHrtf, NearestField(qHrtf))

\* C21, corrected: BuildBFormatHrtf takes the impulse responses and delays
\* of every sample point from field[0] of the store, which is the field with
\* the largest distance (the only field of a one-field store): the blended
\* delays are those of IRs of that field.
PointsFromFirstField ==
    qPc = "built" =>
        /\ FarthestField(qHrtf) = 0
        /\ BlendedIrs \subseteq FieldIrs(qHrtf, 0)
        /\ \A c \in 1..Len(qPoints) :
              LET p == qState.points[c]
              IN  /\ \A k \in 1..4 : p.blend[k] >= 0
                  /\ p.blend[1] + p.blend[2] + p.blend[3] + p.blend[4] = BWeightDen
                  /\ \A ch \in 1..2 :
                        (IF ch = 1 THEN p.ldelay ELSE p.rdelay)
                          = fastf2u(qHrtf.delays[p.idx[1]][ch] * p.blend[1]
                                      + qHrtf.delays[p.idx[2]][ch] * p.blend[2]
                                      + qHrtf.delays[p.idx[3]][ch] * p.blend[3]
                                      + qHrtf.delays[p.idx[4]][ch] * p.blend[4], BWeightDen)

\* BuildBFormatHrtf has run for sample points on a store of several fields.
SeveralFieldsBuiltWitness ==
    qPc = "built" /\ qHrtf.fdCount > 1 /\ Len(qPoints) > 0

\* The blended fixed-point delays of all sample points and both ears.
BlendedDelays ==
    { qState.points[c].ldelay : c \in 1..Len(qPoints) }
      \cup { qState.points[c].rdelay : c \in 1..Len(qPoints) }

SmallestOf(S) == CHOOSE x \in S : \A y \in S : x <= y

LargestOf(S) == CHOOSE x \in S : \A y \in S : x >= y

\* The length before it is rounded up, from the smallest and largest delay.
LengthFor(mn, mx) ==
    SmallestOf({ ((mx - mn + HRIR_DELAY_FRACHALF) \div HRIR_DELAY_FRACONE)
                   + SmallestOf({qHrtf.irSize + 2 * 16, HRIR_LENGTH}),
                 HRIR_LENGTH })

\* C22: BuildBFormatHrtf sets state.IrSize to the smallest multiple of
\* MOD_IR_SIZE that is not below min(delay_round(max_delay - min_delay)
\* + min(store.irSize + 2*16, HRIR_LENGTH), HRIR_LENGTH), for min_delay and
\* max_delay the smallest and largest blended delay over all points and both
\* ears; whatever the number of points (none included, where the result is
\* HRIR_LENGTH) it is a multiple of MOD_IR_SIZE and at most HRIR_LENGTH.
IrSizeFormula ==
    qPc = "built" =>
        /\ qState.IrSize % MOD_IR_SIZE = 0
        /\ qState.IrSize <= HRIR_LENGTH
        /\ Len(qPoints) = 0 => qState.IrSize = HRIR_LENGTH
        /\ Len(qPoints) > 0 =>
              /\ qState.min_delay = SmallestOf(BlendedDelays)
              /\ qState.max_delay = LargestOf(BlendedDelays)
              /\ qState.IrSize
                    = SmallestOf({ n \in 0..(HRIR_LENGTH + MOD_IR_SIZE) :
                                     /\ n % MOD_IR_SIZE = 0
                                     /\ n >= LengthFor(qState.min_delay, qState.max_delay) })

\* BuildBFormatHrtf has run for points whose delays differ, and the length
\* before the rounding up was not a multiple of MOD_IR_SIZE.
OddLengthWitness ==
    /\ qPc = "built"
    /\ Len(qPoints) > 1
    /\ qState.max_delay > qState.min_delay
    /\ LengthFor(qState.min_delay, qState.max_delay) % MOD_IR_SIZE # 0
    /\ qState.IrSize < HRIR_LENGTH

SpecQuery == QueryInit /\ [][QueryNext]_vars

(***************************************************************************)
(* Properties of GetHrtfCoeffs (SpecQuery).                                *)
(***************************************************************************)
\* The sum over the four corners of w_k * store.coeffs[idx_k][j][ch].
CornerSum(j, ch) ==
    HrirTap(qHrtf.coeffs[qOut.idx[1]], j)[ch] * qOut.blend[1]
      + HrirTap(qHrtf.coeffs[qOut.idx[2]], j)[ch] * qOut.blend[2]
      + HrirTap(qHrtf.coeffs[qOut.idx[3]], j)[ch] * qOut.blend[3]
      + HrirTap(qHrtf.coeffs[qOut.idx[4]], j)[ch] * qOut.blend[4]

\* C18: GetHrtfCoeffs writes, for every tap j and channel, the pass-through
\* term PassthruCoeff * (1 - dirfact) if j = 0 (else 0) plus, for j < irSize,
\* the sum over the four corners of w_k * store.coeffs[idx_k][j], and
\* nothing for j >= irSize; so with spread = 2 pi every output is zero but
\* tap 0, which is PassthruCoeff in both channels, and with spread = 0 the
\* output is the bilinear blend of the four corners (weights that sum to 1)
\* with no pass-through term.
CoefficientsBlended ==
    qPc = "done" =>
        /\ DOMAIN qOut.coeffs = 0..(HRIR_LENGTH - 1)
        /\ \A j \in 0..(HRIR_LENGTH - 1) : \A ch \in 1..2 :
              /\ qOut.coeffs[j][ch].pass = IF j = 0 THEN qArgs.spread ELSE 0
              /\ qOut.coeffs[j][ch].sum =
                    IF j < qHrtf.irSize THEN CornerSum(j, ch) ELSE 0
        /\ qOut.blend[1] + qOut.blend[2] + qOut.blend[3] + qOut.blend[4]
              = AngleDen * (2 * AngleDen) * (SpreadDen - qArgs.spread)
        /\ \A k \in 1..4 : qOut.blend[k] >= 0
        /\ qArgs.spread = SpreadDen =>
              \A j \in 0..(HRIR_LENGTH - 1) : \A ch \in 1..2 :
                  qOut.coeffs[j][ch] = [pass |-> IF j = 0 THEN SpreadDen ELSE 0, sum |-> 0]
        /\ qArgs.spread = 0 =>
              /\ qOut.blend[1] + qOut.blend[2] + qOut.blend[3] + qOut.blend[4] = WeightDen
              /\ \A j \in 0..(HRIR_LENGTH - 1) : \A ch \in 1..2 :
                    qOut.coeffs[j][ch].pass = 0

\* A query with half spread between grid points of a store whose irSize the
\* hrtf-size option shortened to 10: tap 0 has both terms, more than one
\* corner has a weight, and tap 10 is not written although the corner has a
\* sample there.
PartlyDirectionalWitness ==
    /\ qPc = "done"
    /\ qHrtf.irSize = 10
    /\ qArgs.spread = 1
    /\ qOut.coeffs[0][1].pass = 1 /\ qOut.coeffs[0][1].sum # 0
    /\ qOut.blend[1] > 0 /\ qOut.blend[2] > 0 /\ qOut.blend[3] > 0 /\ qOut.blend[4] > 0
    /\ HrirTap(qHrtf.coeffs[qOut.idx[1]], 10)[1] # 0
    /\ qOut.coeffs[10][1].sum = 0

\* C19: each ear's output delay is the weighted sum over the four corner
\* IRs, each corner weighted by its own weight w_k, rounded down to whole
\* samples, for the left ear and for the right ear alike.  The code does not
\* keep this: for the right ear it weights the fourth corner with blend[1].
DelaysOwnWeights ==
    qPc = "done" =>
        \A ch \in 1..2 :
            qOut.delays[ch] =
                (qHrtf.delays[qOut.idx[1]][ch] * qOut.blend[1]
                   + qHrtf.delays[qOut.idx[2]][ch] * qOut.blend[2]
                   + qHrtf.delays[qOut.idx[3]][ch] * qOut.blend[3]
                   + qHrtf.delays[qOut.idx[4]][ch] * qOut.blend[4])
                  \div (WeightDen * HRIR_DELAY_FRACONE)

\* C20: the walk over the fields ends at the field with the largest
\* distance that does not exceed the queried distance, or at the nearest
\* field when the query is closer than every field, and the base into the
\* elevation table is the sum of evCount of the fields before it.
FieldForDistance ==
    qPc = "done" =>
        LET fields == 0..(qHrtf.fdCount - 1)
            fits == { f \in fields : qHrtf.field[f].distance <= qArgs.distance }
        IN  /\ qOut.field \in fields
            /\ fits # {} =>
                  /\ qOut.field \in fits
                  /\ \A g \in fits :
                        qHrtf.field[g].distance <= qHrtf.field[qOut.field].distance
            /\ fits = {} =>
                  \A g \in fields :
                      qHrtf.field[qOut.field].distance <= qHrtf.field[g].distance
            /\ qOut.ebase = SumTo([f \in fields |-> qHrtf.field[f].evCount], qOut.field)

\* A query between the distances of two fields: the walk skipped the
\* farther field and its elevations.
FieldSkippedWitness ==
    /\ qPc = "done"
    /\ qHrtf.fdCount > 1
    /\ qOut.field = 1
    /\ qOut.ebase = qHrtf.field[0].evCount
    /\ qHrtf.field[1].distance < qArgs.distance
    /\ qArgs.distance < qHrtf.field[0].distance

(***************************************************************************)
(* The reordering of the fields of a V2 file.                              *)
(***************************************************************************)
\* The first elevation and the first IR of field g in the file's order.
FileEbase(file, g) == SumTo(file.evCount, g)

FileIrBase(file, g) == SumTo(file.azCount, SumTo(file.evCount, g))

\* The number of IRs of field g of the file.
FileFieldIrs(file, g) == FileIrBase(file, g + 1) - FileIrBase(file, g)

\* Field f of the store st is field g of the file, its elevations and IRs in
\* the file's order.
FieldIsFileField(st, file, f, g) ==
    /\ st.field[f].distance = file.distance[g]
    /\ st.field[f].evCount = file.evCount[g]
    /\ \A e \in 0..(file.evCount[g] - 1) :
          st.elev[FieldEbase(st, f) + e].azCount = file.azCount[FileEbase(file, g) + e]
    /\ \A k \in 0..(FileFieldIrs(file, g) - 1) :
          \E new \in {st.elev[FieldEbase(st, f)].irOffset + k} :
          \E old \in {FileIrBase(file, g) + k} :
             /\ st.delays[new][1] = ShiftDelay(file.delays[old][1])
             /\ file.channelType = CHANTYPE_LEFTRIGHT =>
                   st.delays[new][2] = ShiftDelay(file.delays[old][2])
             /\ \A j \in 0..(file.irSize - 1) :
                   /\ st.coeffs[new][j][1] = ReadCoeff(file, old * file.irSize + j, 0)
                   /\ file.channelType = CHANTYPE_LEFTRIGHT =>
                         st.coeffs[new][j][2] = ReadCoeff(file, old * file.irSize + j, 1)

\* The elevation offsets of st are the prefix sums of its azimuth counts.
OffsetsArePrefixSums(st) ==
    \A e \in DOMAIN st.elev :
        st.elev[e].irOffset = SumTo([x \in DOMAIN st.elev |-> st.elev[x].azCount], e)

\* C23: for a V2 file of more than one field the store that the loader
\* creates has the fields in reversed file order: field f has the distance,
\* evCount, azimuth counts, IR coefficients and delays of file field
\* fdCount-1-f, azimuth counts and IRs in their file order within the field,
\* and the elevation offsets are the prefix sums of the reordered azCount.
FieldsReversed ==
    (ldPc = "loaded" /\ ldFile.magic = "MinPHR02" /\ ldFile.fdCount > 1) =>
        \A st \in {LoadStream(ldFile)} :
            /\ st.fdCount = ldFile.fdCount
            /\ \A f \in 0..(st.fdCount - 1) :
                  FieldIsFileField(st, ldFile, f, st.fdCount - 1 - f)
            /\ OffsetsArePrefixSums(st)

\* A left-right V2 file has been loaded whose fields differ in their number
\* of IRs.
UnequalFieldsWitness ==
    /\ ldPc = "loaded"
    /\ ldFile.magic = "MinPHR02"
    /\ ldFile.fdCount > 1
    /\ ldFile.channelType = CHANTYPE_LEFTRIGHT
    /\ FileFieldIrs(ldFile, 0) # FileFieldIrs(ldFile, 1)

(***************************************************************************)
(* The rate change of GetLoadedHrtf.                                       *)
(***************************************************************************)
\* ceil(a / b) and the smallest multiple of m that is not below n.
CeilDiv(a, b) == IF a % b = 0 THEN a \div b ELSE (a \div b) + 1

MultipleAbove(n, m) == CHOOSE k \in n..(n + m - 1) : k % m = 0

\* The delay and the IR size that the rate change srate -> devrate gives.
RescaledDelay(d, srate, devrate) ==
    SmallestOf({ MAX_HRIR_DELAY * HRIR_DELAY_FRACONE,
                 (d * devrate + srate \div 2) \div srate })

RescaledIrSize(irSize, srate, devrate) ==
    MultipleAbove(SmallestOf({HRIR_LENGTH, CeilDiv(irSize * devrate, srate)}), MOD_IR_SIZE)

\* C24: when the file rate differs from devrate, the store of GetLoadedHrtf
\* has sampleRate = devrate, every delay is min(MAX_HRIR_DELAY*FRACONE,
\* floor((d_old*devrate + srate/2) / srate)) with no wrap-around, and the
\* irSize before the hrtf-size option is min(HRIR_LENGTH,
\* ceil(irSize_old*devrate / srate)) rounded up to a multiple of MOD_IR_SIZE.
RateChangeFormulas ==
    (ldPc = "loaded" /\ ldFile.rate # ldDevrate) =>
        \A st \in {LoadStream(ldFile)} :
            /\ ldHrtf.sampleRate = ldDevrate
            /\ DOMAIN ldHrtf.delays = DOMAIN st.delays
            /\ \A i \in DOMAIN st.delays : \A c \in 1..2 :
                  ldHrtf.delays[i][c] = RescaledDelay(st.delays[i][c], st.sampleRate, ldDevrate)
            /\ Resample(st, ldDevrate).irSize
                  = RescaledIrSize(st.irSize, st.sampleRate, ldDevrate)
            /\ ldHrtfSize = <<>> =>
                  ldHrtf.irSize = RescaledIrSize(st.irSize, st.sampleRate, ldDevrate)

\* A file of rate 22050 and irSize 8 was loaded for 44100 with no hrtf-size:
\* the store has irSize 16 and its delays, some of them not zero, are twice
\* the loaded ones.
RateDoubledWitness ==
    /\ ldPc = "loaded"
    /\ ldFile.rate = 22050 /\ ldDevrate = 44100 /\ ldFile.irSize = 8
    /\ ldHrtfSize = <<>>
    /\ ldHrtf.irSize = 16
    /\ \A st \in {LoadStream(ldFile)} :
          /\ \A i \in DOMAIN st.delays : \A c \in 1..2 :
                ldHrtf.delays[i][c] = 2 * st.delays[i][c]
          /\ \E i \in DOMAIN st.delays : st.delays[i][1] > 0

(***************************************************************************)
(* The sweep of DecRef and the order of the cache (Spec).                  *)
(***************************************************************************)
\* The position of the slot of store ptr in cache, 0 if it has none.
SlotOf(cache, ptr) ==
    IF \E i \in 1..Len(cache) : cache[i].mEntry = ptr
    THEN CHOOSE i \in 1..Len(cache) : cache[i].mEntry = ptr
    ELSE 0

\* The cache from the state after a device's first enumeration, which every
\* GetLoadedHrtf that finds a name comes after.
EnumeratedInit ==
    /\ \E devname \in Devices :
          EnumeratedHrtfs = EnumeratedAfter(<<>>, ConfigValueStr(devname, "hrtf-paths"))
    /\ EnumeratedHrtfLock = Unlocked
    /\ LoadedHrtfLock = Unlocked
    /\ LoadedHrtfs = <<>>
    /\ heap = <<>>
    /\ freed = {}
    /\ origin = <<>>
    /\ pc = [t \in Threads |-> "idle"]
    /\ local = [t \in Threads |-> NoLocals]
    /\ held = [t \in Threads |-> EmptyBag]
    /\ ret = [t \in Threads |-> NoReturn]
    /\ calls = 0
    /\ hist = <<>>
    /\ LoadIdle /\ EnumIdle /\ QueryIdle

SpecEnumerated == EnumeratedInit /\ [][Next]_vars

\* Thread t finishes the sweep of its DecRef in this step.
SweepStep(t) == pc[t] = "DecRef:sweep" /\ pc'[t] = "idle"

\* C25: when a DecRef that brought a count to zero has finished its sweep,
\* every entry whose store had count zero at the time of the sweep is gone
\* (not only the store being released), every entry whose count was above
\* zero is still there, nothing else is, and the survivors keep their
\* relative order.
SweepRemovesAllUnused ==
    [][\A t \in Threads : SweepStep(t) =>
          /\ \A i \in 1..Len(LoadedHrtfs) :
                IF heap[LoadedHrtfs[i].mEntry].mRef = 0
                THEN SlotOf(LoadedHrtfs', LoadedHrtfs[i].mEntry) = 0
                ELSE /\ SlotOf(LoadedHrtfs', LoadedHrtfs[i].mEntry) # 0
                     /\ LoadedHrtfs'[SlotOf(LoadedHrtfs', LoadedHrtfs[i].mEntry)]
                           = LoadedHrtfs[i]
          /\ \A j \in 1..Len(LoadedHrtfs') :
                SlotOf(LoadedHrtfs, LoadedHrtfs'[j].mEntry) # 0
          /\ \A i, j \in 1..Len(LoadedHrtfs') :
                i < j => SlotOf(LoadedHrtfs, LoadedHrtfs'[i].mEntry)
                           < SlotOf(LoadedHrtfs, LoadedHrtfs'[j].mEntry)]_vars

\* A sweep has removed the store of another thread's DecRef, which brought
\* that store's count to zero and has not swept yet.
SweptForAnotherWitness ==
    \E t \in Threads : pc[t] = "DecRef:lock" /\ local[t].hrtf \in freed

(***************************************************************************)
(* The elevation table of a loaded store.                                  *)
(***************************************************************************)
\* The azimuth counts of the first n elevations of the table, summed.
AzCountBefore(st, n) == SumTo([x \in DOMAIN st.elev |-> st.elev[x].azCount], n)

\* C26: in every loaded store the elevation table partitions the IRs: the
\* irOffset of elevation e is the sum of azCount over the elevations before
\* it, and the azimuth counts of all elevations sum to the IR count of the
\* store.  LoadHrtf00 does not keep this: it takes the table from the file
\* and never checks that the first offset is 0.
ElevTablePartitions ==
    ldPc = "loaded" =>
        /\ \A e \in DOMAIN ldHrtf.elev :
              ldHrtf.elev[e].irOffset = AzCountBefore(ldHrtf, e)
        /\ AzCountBefore(ldHrtf, Cardinality(DOMAIN ldHrtf.elev))
              = Cardinality(DOMAIN ldHrtf.coeffs)

\* The slots of cache are in non-decreasing order of their filenames.
SortedByFilename(cache) ==
    \A i, j \in 1..Len(cache) : i < j => ~StrLess(cache[j].mFilename, cache[i].mFilename)

\* This step inserts one slot, at position k, after every slot with a
\* smaller or equal filename and before every slot with a larger one.
InsertedInOrder(k) ==
    /\ LoadedHrtfs' = emplace(LoadedHrtfs, k, LoadedHrtfs'[k])
    /\ \A i \in 1..(k - 1) :
          ~StrLess(LoadedHrtfs'[k].mFilename, LoadedHrtfs[i].mFilename)
    /\ \A i \in k..Len(LoadedHrtfs) :
          StrLess(LoadedHrtfs'[k].mFilename, LoadedHrtfs[i].mFilename)

\* C27: after any sequence of GetLoadedHrtf and DecRef calls LoadedHrtfs is
\* sorted by filename in non-decreasing order; a newly loaded store is
\* inserted after all entries with a smaller or equal filename and before
\* all entries with a larger one, and a step that removes entries keeps the
\* others in their order.
CacheSortedByFilename ==
    /\ [](SortedByFilename(LoadedHrtfs))
    /\ [][/\ Len(LoadedHrtfs') > Len(LoadedHrtfs) =>
               \E k \in 1..Len(LoadedHrtfs') : InsertedInOrder(k)
          /\ Len(LoadedHrtfs') < Len(LoadedHrtfs) =>
               /\ SortedByFilename(LoadedHrtfs')
               /\ \A i, j \in 1..Len(LoadedHrtfs') :
                     i < j => SlotOf(LoadedHrtfs, LoadedHrtfs'[i].mEntry)
                                < SlotOf(LoadedHrtfs, LoadedHrtfs'[j].mEntry)]_vars

\* The cache holds three stores and the one loaded last is in the middle,
\* after a store of the same filename and before one of a larger filename.
InsertedInMiddleWitness ==
    /\ Len(LoadedHrtfs) = 3
    /\ LoadedHrtfs[2].mEntry = Len(heap)
    /\ LoadedHrtfs[1].mFilename = LoadedHrtfs[2].mFilename
    /\ StrLess(LoadedHrtfs[2].mFilename, LoadedHrtfs[3].mFilename)

\* C28: at every moment LoadedHrtfs holds at most one entry for a pair
\* (filename, sampleRate), under any interleaving of GetLoadedHrtf and DecRef
\* by several threads (a GetLoadedHrtf between another thread's decrement to
\* zero and its sweep reuses the zero-count entry), and the store of every
\* entry has the sample rate of the device rate it was loaded for.
OneEntryPerNameAndRate ==
    /\ \A i, j \in 1..Len(LoadedHrtfs) :
          (/\ LoadedHrtfs[i].mFilename = LoadedHrtfs[j].mFilename
           /\ heap[LoadedHrtfs[i].mEntry].sampleRate = heap[LoadedHrtfs[j].mEntry].sampleRate)
             => i = j
    /\ \A i \in 1..Len(LoadedHrtfs) :
          /\ LoadedHrtfs[i].mEntry # nullptr
          /\ LoadedHrtfs[i].mEntry \notin freed
          /\ origin[LoadedHrtfs[i].mEntry] = LoadedHrtfs[i].mFilename
    /\ \A k \in 1..Len(hist) :
          /\ heap[hist[k].hrtf].sampleRate = hist[k].devrate
          /\ hist[k].hrtf \notin freed => SlotOf(LoadedHrtfs, hist[k].hrtf) # 0

\* A GetLoadedHrtf found a store whose count another thread had brought to
\* zero, before that thread's sweep: the store was returned with count 1,
\* the sweep has run since and the one entry for it is still in the cache.
ZeroCountReusedWitness ==
    /\ \A t \in Threads : pc[t] = "idle"
    /\ \E k \in 1..Len(hist) :
          /\ ~hist[k].fresh /\ hist[k].ref = 1
          /\ SlotOf(LoadedHrtfs, hist[k].hrtf) # 0
          /\ heap[hist[k].hrtf].mRef = 1
          /\ \A t \in Threads : ret[t].hrtf = hist[k].hrtf \/ BagToSet(held[t]) = {}

(***************************************************************************)
(* The indices of the queries (SpecQuery).                                 *)
(***************************************************************************)
\* The IRs of elevation e of the table: [irOffset, irOffset + azCount).
ElevIrs(Hrtf, e) ==
    { Hrtf.elev[e].irOffset + a : a \in 0..(Hrtf.elev[e].azCount - 1) }

\* idx[1], idx[2] are IRs of an elevation e0 of field f and idx[3], idx[4]
\* IRs of e0 or of the next elevation of the field, all of them in the
\* store's tables.
CornersInField(Hrtf, f, idx) ==
    /\ \A k \in 1..4 : idx[k] \in DOMAIN Hrtf.coeffs /\ idx[k] \in DOMAIN Hrtf.delays
    /\ \E e0 \in FieldEbase(Hrtf, f)..(FieldEbase(Hrtf, f) + Hrtf.field[f].evCount - 1) :
          \E e1 \in {e0, e0 + 1} :
             /\ e1 <= FieldEbase(Hrtf, f) + Hrtf.field[f].evCount - 1
             /\ idx[1] \in ElevIrs(Hrtf, e0) /\ idx[2] \in ElevIrs(Hrtf, e0)
             /\ idx[3] \in ElevIrs(Hrtf, e1) /\ idx[4] \in ElevIrs(Hrtf, e1)

\* C29: for a store that passed the loader's bounds, every elevation in
\* [-pi/2, pi/2] and every azimuth in [-pi, pi], CalcEvIndex gives an index
\* in [0, evcount-1], CalcAzIndex an index in [0, azcount-1], and the four
\* corner indices of GetHrtfCoeffs and of BuildBFormatHrtf lie in the IR
\* ranges of two elevations of the selected field, inside the store's
\* coefficient and delay tables.
IndicesInRange ==
    /\ qPc \in {"done", "built"} =>
          /\ \A f \in 0..(qHrtf.fdCount - 1) :
                \A ev \in (-(AngleDen \div 2))..(AngleDen \div 2) :
                   CalcEvIndex(qHrtf.field[f].evCount, ev).idx
                     \in 0..(qHrtf.field[f].evCount - 1)
          /\ \A e \in DOMAIN qHrtf.elev :
                \A az \in (-AngleDen)..AngleDen :
                   CalcAzIndex(qHrtf.elev[e].azCount, az).idx
                     \in 0..(qHrtf.elev[e].azCount - 1)
    /\ qPc = "done" => CornersInField(qHrtf, qOut.field, qOut.idx)
    /\ qPc = "built" =>
          \A c \in 1..Len(qPoints) : CornersInField(qHrtf, 0, qState.points[c].idx)

\* GetHrtfCoeffs was called with azimuth +pi for a field other than the
\* first, and the second corner wrapped around to the start of its
\* elevation's IRs.
AzimuthWrappedWitness ==
    /\ qPc = "done"
    /\ qArgs.azimuth = AngleDen
    /\ qOut.field > 0
    /\ qOut.idx[2] < qOut.idx[1]

(***************************************************************************)
(* The hrtf-size option (SpecLoad).                                        *)
(***************************************************************************)
\* The irSize of the store just before the hrtf-size option is applied.
IrSizeBeforeOption(st, devrate) ==
    IF st.sampleRate # devrate THEN RescaledIrSize(st.irSize, st.sampleRate, devrate)
    ELSE st.irSize

\* C30: applying the hrtf-size option never makes a store's irSize larger
\* than it was just before the option was applied.  The code does not keep
\* this: an irSize that the rate change brought below MIN_IR_SIZE is raised
\* to MIN_IR_SIZE by an option below it.
HrtfSizeNeverEnlarges ==
    ldPc = "loaded" =>
        \A st \in {LoadStream(ldFile)} :
            ldHrtf.irSize <= IrSizeBeforeOption(st, ldDevrate)

====
